---- MODULE Spec2Model ----
(***************************************************************************)
(* A model of the halken Game Boy emulator: the video controller's mode    *)
(* state machine (UpdateLCD / setLCDStatus) and the frame scheduler        *)
(* (Update).  Bytes are 0..255, modeClock is a Go int16, currentLine a Go  *)
(* uint16; every register access is an access to the shared Memory array.  *)
(***************************************************************************)
EXTENDS Integers, Sequences, FiniteSets, TLC

VARIABLES
    mode,         \* GBLCD.mode (uint8)
    modeClock,    \* GBLCD.modeClock (int16)
    currentLine,  \* GBLCD.currentLine (uint16)
    Memory,       \* GbMMU.Memory, restricted to the modelled addresses
    lastOp,       \* history: the kind of the last step taken
    prevMode,     \* history: mode before the last step
    prevLine,     \* history: currentLine before the last step
    raised,       \* history: the request bits the last step OR-ed into
                  \* Memory[0xFF0F] (what it leaves in a cleared register)
    run,          \* history: progress of the 80/172/204 scenario (0..3)
    vbIncs,       \* history: scanline increments made in mode 1 since it
                  \* was entered, -1 when mode 1 was not entered by a
                  \* transition with the display on throughout
    GbCPU,        \* the CPU: PC, pcAlias, SP, IME, Halted, EIReceived,
                  \* Jumped, IFPreHalt
    phase,        \* position of Update: "idle" (not running) or "loop"
    calls,        \* invocations of Update so far
    updateCycles, \* Update's local cycle count
    prevCycles,   \* history: updateCycles before the last iteration
    hist,         \* history: the last two iterations of Update's loop,
                  \* newest first (see StepRecord)
    Cart,         \* GbMMU.Cart, the loaded cartridge
    drawn,        \* what the last DrawFrame built: the populated tiles of
                  \* background and window and the rendered sprites
    fed           \* history: the cycles given to UpdateLCD since the VBlank
                  \* request was last raised and the length of the last
                  \* whole frame (see FedNext)

lcdVars == <<mode, modeClock, currentLine, Memory>>
histVars == <<lastOp, prevMode, prevLine, raised, run, vbIncs>>
schedVars == <<GbCPU, phase, calls, updateCycles, prevCycles, hist, Cart,
               drawn, fed>>
vars == <<mode, modeClock, currentLine, Memory,
          lastOp, prevMode, prevLine, raised, run, vbIncs,
          GbCPU, phase, calls, updateCycles, prevCycles, hist, Cart,
          drawn, fed>>

----------------------------------------------------------------------------
(* Fixed-width arithmetic and bit operations of the Go code.               *)

Byte(x) == x % 256

Uint16(x) == x % 65536

Int16(x) == IF x % 65536 >= 32768 THEN (x % 65536) - 65536 ELSE x % 65536

Bit(v, n) == (v \div (2 ^ n)) % 2

SetBit(v, n) == IF Bit(v, n) = 1 THEN v ELSE v + 2 ^ n

ClearBit(v, n) == IF Bit(v, n) = 1 THEN v - 2 ^ n ELSE v

----------------------------------------------------------------------------
(* Register addresses and timing constants of the video controller.        *)

lcdc == 65344

stat == 65345

ly == 65348

lyc == 65349

IFReg == 65295

HBlankCycles == 204

VBlankLineCycles == 456

OAMCycles == 80

VRAMCycles == 172

VBlankStartLine == 143

LastLine == 153

StatIdle == 128

MemDomain == {lcdc, stat, ly, lyc, IFReg}

\* GbCPU.Regs.PC owns its two bytes (it is not a view of Memory)
NoAlias == -1

\* the stack pointer at reset
StackTop == 65534

\* no VBlank request yet: no cycles counted, no step that went past a
\* threshold, no frame measured
NoFeed ==
    [cycles |-> -1, discards |-> 0, exact |-> TRUE, frame |-> -1,
     frameExact |-> FALSE]

\* nothing drawn yet
NoFrame == [populatedBG |-> <<>>, populatedWindow |-> <<>>, sprites |-> <<>>]

\* GbMMU.Cart before a cartridge is loaded: the zero Cartridge
NoCart ==
    [MBC |-> [len |-> 0, bytes |-> <<>>], Title |-> <<>>, CGBFlag |-> 0, Type |-> 0, ROMSize |-> 0,
     RAMSize |-> 0]

----------------------------------------------------------------------------
(* The video controller.  A controller state is a record                   *)
(* [mode, modeClock, currentLine, mem].                                    *)

lcdEnabled(mem) == IF Bit(mem[lcdc], 7) # 0 THEN 1 ELSE 0

setLCDInterrupt(mem) == [mem EXCEPT ![IFReg] = SetBit(@, 1)]

\* HBlankCase with the VBlank request made only when STAT bit 4 is set
HBlankCase_gatedVBlank(w) ==
    IF w.modeClock >= 204
    THEN LET line == Uint16(w.currentLine + 1)
             m1 == [w.mem EXCEPT ![ly] = Byte(@ + 1)]
         IN  IF line = 143
             THEN LET m2 == [m1 EXCEPT ![stat] = ClearBit(SetBit(@, 0), 1)]
                      m4 == IF Bit(m2[stat], 4) # 0
                            THEN [m2 EXCEPT ![IFReg] = SetBit(SetBit(@, 0), 1)]
                            ELSE m2
                  IN  [mode |-> 1, modeClock |-> 0, currentLine |-> line,
                       mem |-> m4]
             ELSE LET m2 == [m1 EXCEPT ![stat] = SetBit(ClearBit(@, 0), 1)]
                      m3 == IF Bit(m2[stat], 5) # 0
                            THEN [m2 EXCEPT ![IFReg] = SetBit(@, 1)] ELSE m2
                  IN  [mode |-> 2, modeClock |-> 0, currentLine |-> line,
                       mem |-> m3]
    ELSE w

\* HBlankCase that credits the cycles beyond 204 to the next mode
HBlankCase_carryOver(w) ==
    IF w.modeClock >= 204
    THEN LET line == Uint16(w.currentLine + 1)
             m1 == [w.mem EXCEPT ![ly] = Byte(@ + 1)]
         IN  IF line = 143
             THEN LET m2 == [m1 EXCEPT ![stat] = ClearBit(SetBit(@, 0), 1)]
                      m3 == [m2 EXCEPT ![IFReg] = SetBit(@, 0)]
                      m4 == IF Bit(m3[stat], 4) # 0
                            THEN [m3 EXCEPT ![IFReg] = SetBit(@, 1)] ELSE m3
                  IN  [mode |-> 1, modeClock |-> w.modeClock - 204,
                       currentLine |-> line, mem |-> m4]
             ELSE LET m2 == [m1 EXCEPT ![stat] = SetBit(ClearBit(@, 0), 1)]
                      m3 == IF Bit(m2[stat], 5) # 0
                            THEN [m2 EXCEPT ![IFReg] = SetBit(@, 1)] ELSE m2
                  IN  [mode |-> 2, modeClock |-> w.modeClock - 204,
                       currentLine |-> line, mem |-> m3]
    ELSE w

\* case 0 of setLCDStatus: horizontal blanking
HBlankCase(w) ==
    IF w.modeClock >= HBlankCycles
    THEN LET line == Uint16(w.currentLine + 1)
             m1 == [w.mem EXCEPT ![ly] = Byte(@ + 1)]
         IN  IF line = VBlankStartLine
             THEN LET m2 == [m1 EXCEPT ![stat] = ClearBit(SetBit(@, 0), 1)]
                      m3 == [m2 EXCEPT ![IFReg] = SetBit(@, 0)]
                      m4 == IF Bit(m3[stat], 4) # 0
                            THEN setLCDInterrupt(m3) ELSE m3
                  IN  [mode |-> 1, modeClock |-> 0, currentLine |-> line,
                       mem |-> m4]
             ELSE LET m2 == [m1 EXCEPT ![stat] = SetBit(ClearBit(@, 0), 1)]
                      m3 == IF Bit(m2[stat], 5) # 0
                            THEN setLCDInterrupt(m2) ELSE m2
                  IN  [mode |-> 2, modeClock |-> 0, currentLine |-> line,
                       mem |-> m3]
    ELSE w

\* VBlankCase without the reset of LY at the wrap
VBlankCase_noLyReset(w) ==
    IF w.modeClock >= 456
    THEN LET line == Uint16(w.currentLine + 1)
             m1 == [w.mem EXCEPT ![ly] = Byte(@ + 1)]
         IN  IF line > 153
             THEN LET m2 == [m1 EXCEPT ![stat] = SetBit(ClearBit(@, 0), 1)]
                      m3 == IF Bit(m2[stat], 5) # 0
                            THEN [m2 EXCEPT ![IFReg] = SetBit(@, 1)] ELSE m2
                  IN  [mode |-> 2, modeClock |-> 0, currentLine |-> 0,
                       mem |-> m3]
             ELSE [mode |-> 1, modeClock |-> 0, currentLine |-> line,
                   mem |-> m1]
    ELSE w

\* case 1 of setLCDStatus: vertical blanking
VBlankCase(w) ==
    IF w.modeClock >= VBlankLineCycles
    THEN LET line == Uint16(w.currentLine + 1)
             m1 == [w.mem EXCEPT ![ly] = Byte(@ + 1)]
         IN  IF line > LastLine
             THEN LET m2 == [m1 EXCEPT ![stat] = SetBit(ClearBit(@, 0), 1)]
                      m3 == IF Bit(m2[stat], 5) # 0
                            THEN setLCDInterrupt(m2) ELSE m2
                  IN  [mode |-> 2, modeClock |-> 0, currentLine |-> 0,
                       mem |-> [m3 EXCEPT ![ly] = 0]]
             ELSE [mode |-> 1, modeClock |-> 0, currentLine |-> line,
                   mem |-> m1]
    ELSE w

\* OAMCase with > in place of >=
OAMCase_strict(w) ==
    IF w.modeClock > 80
    THEN [mode |-> 3, modeClock |-> 0, currentLine |-> w.currentLine,
          mem |-> [w.mem EXCEPT ![stat] = SetBit(SetBit(@, 0), 1)]]
    ELSE w

\* case 2 of setLCDStatus: OAM read
OAMCase(w) ==
    IF w.modeClock >= OAMCycles
    THEN [mode |-> 3, modeClock |-> 0, currentLine |-> w.currentLine,
          mem |-> [w.mem EXCEPT ![stat] = SetBit(SetBit(@, 0), 1)]]
    ELSE w

\* VRAMCase testing the OAM enable bit 5 in place of the HBlank bit 3
VRAMCase_bit5(w) ==
    IF w.modeClock >= 172
    THEN LET m1 == [w.mem EXCEPT ![stat] = ClearBit(ClearBit(@, 0), 1)]
             m2 == IF Bit(m1[stat], 5) # 0
                   THEN [m1 EXCEPT ![IFReg] = SetBit(@, 1)] ELSE m1
         IN  [mode |-> 0, modeClock |-> 0, currentLine |-> w.currentLine,
              mem |-> m2]
    ELSE w

\* case 3 of setLCDStatus: VRAM read
VRAMCase(w) ==
    IF w.modeClock >= VRAMCycles
    THEN LET m1 == [w.mem EXCEPT ![stat] = ClearBit(ClearBit(@, 0), 1)]
             m2 == IF Bit(m1[stat], 3) # 0 THEN setLCDInterrupt(m1) ELSE m1
         IN  [mode |-> 0, modeClock |-> 0, currentLine |-> w.currentLine,
              mem |-> m2]
    ELSE w

\* Coincidence without the else branch that clears STAT bit 2
Coincidence_noClear(w) ==
    IF w.mem[ly] = w.mem[lyc]
    THEN LET m1 == [w.mem EXCEPT ![stat] = SetBit(@, 2)]
         IN  [w EXCEPT !.mem = IF Bit(m1[stat], 6) # 0
                               THEN [m1 EXCEPT ![IFReg] = SetBit(@, 1)]
                               ELSE m1]
    ELSE w

\* the LY = LYC comparison that ends setLCDStatus
Coincidence(w) ==
    IF w.mem[ly] = w.mem[lyc]
    THEN LET m1 == [w.mem EXCEPT ![stat] = SetBit(@, 2)]
         IN  [w EXCEPT !.mem = IF Bit(m1[stat], 6) # 0
                               THEN setLCDInterrupt(m1) ELSE m1]
    ELSE [w EXCEPT !.mem = [w.mem EXCEPT ![stat] = ClearBit(@, 2)]]

setLCDStatus(w) ==
    Coincidence(CASE w.mode = 0 -> HBlankCase(w)
                  [] w.mode = 1 -> VBlankCase(w)
                  [] w.mode = 2 -> OAMCase(w)
                  [] w.mode = 3 -> VRAMCase(w)
                  [] OTHER -> w)

\* UpdateLCDResult whose disabled branch forgets to reset currentLine
UpdateLCDResult_keepLine(w, cycles) ==
    IF lcdEnabled(w.mem) = 0
    THEN [mode |-> w.mode, modeClock |-> 0, currentLine |-> w.currentLine,
          mem |-> [w.mem EXCEPT ![ly] = 0, ![stat] = 128]]
    ELSE setLCDStatus([w EXCEPT !.modeClock = Int16(@ + Int16(cycles))])

\* the controller state one UpdateLCD(cycles) call leaves behind
UpdateLCDResult(w, cycles) ==
    IF lcdEnabled(w.mem) = 0
    THEN [mode |-> w.mode, modeClock |-> 0, currentLine |-> 0,
          mem |-> [w.mem EXCEPT ![ly] = 0, ![stat] = StatIdle]]
    ELSE setLCDStatus([w EXCEPT !.modeClock = Int16(@ + Int16(cycles))])

----------------------------------------------------------------------------
(* Inputs: the cycle counts fed to UpdateLCD and the values the program    *)
(* stores in the controller's registers.                                   *)

CycleSteps == {OAMCycles, VRAMCycles, HBlankCycles, VBlankLineCycles}

LCDCValues == {0, 128}

StatEnableValues == {0, 8, 16, 32, 64}

LYCValues == {0, 143}

----------------------------------------------------------------------------
(* State after construction: InitLCD on a zeroed GBLCD and zeroed memory.  *)

InitLCD ==
    /\ mode = 2
    /\ modeClock = 0
    /\ currentLine = 0

Init ==
    /\ InitLCD
    /\ Memory = [a \in MemDomain |-> 0]
    /\ lastOp = "init"
    /\ prevMode = 2
    /\ prevLine = 0
    /\ raised = 0
    /\ run = 0
    /\ vbIncs = -1
    /\ GbCPU = [PC |-> 0, pcAlias |-> NoAlias, SP |-> StackTop, IME |-> 0,
                Halted |-> FALSE, EIReceived |-> FALSE, Jumped |-> FALSE,
                IFPreHalt |-> 0, a |-> 0, f |-> 0, b |-> 0, c |-> 0,
                d |-> 0, e |-> 0, h |-> 0, l |-> 0]
    /\ phase = "idle"
    /\ calls = 0
    /\ updateCycles = 0
    /\ prevCycles = 0
    /\ hist = <<>>
    /\ Cart = NoCart
    /\ drawn = NoFrame
    /\ fed = NoFeed

----------------------------------------------------------------------------
(* History bookkeeping of one UpdateLCD step.                              *)

\* progress of the scenario "mode 2, line 0, clock 0, then 80, 172, 204"
ScenarioNext(on, cycles) ==
    IF on /\ cycles = OAMCycles /\ mode = 2 /\ modeClock = 0
          /\ currentLine = 0
    THEN 1
    ELSE IF on /\ run = 1 /\ cycles = VRAMCycles THEN 2
    ELSE IF on /\ run = 2 /\ cycles = HBlankCycles THEN 3
    ELSE 0

\* scanline increments made in mode 1 since its entry
VbIncsNext(on, cycles, r) ==
    IF ~on THEN -1
    ELSE IF mode = 0 /\ r.mode = 1 THEN 0
    ELSE IF mode = 1 /\ vbIncs >= 0
         THEN IF Int16(modeClock + Int16(cycles)) >= VBlankLineCycles
              THEN vbIncs + 1 ELSE vbIncs
    ELSE -1

----------------------------------------------------------------------------
(* Actions.  One step is what one iteration of the emulator's main loop    *)
(* does to the controller: the executed instruction may store into one of  *)
(* the registers, then UpdateLCD runs with the cycles it consumed.         *)

\* the stores a program makes: none, LCDC, the four interrupt-enable bits
\* of STAT (read-modify-write, bits 0..2 and 7 kept) or LYC
Stores ==
    {<<"none", 0>>}
        \cup {<<"lcdc", v>> : v \in LCDCValues}
        \cup {<<"stat", v>> : v \in StatEnableValues}
        \cup {<<"lyc", v>> : v \in LYCValues}

CpuStore(mem, st) ==
    CASE st[1] = "lcdc" -> [mem EXCEPT ![lcdc] = st[2]]
      [] st[1] = "stat" ->
            [mem EXCEPT ![stat] = (@ % 8) + st[2] + 128 * Bit(@, 7)]
      [] st[1] = "lyc" -> [mem EXCEPT ![lyc] = st[2]]
      [] OTHER -> mem

\* the request bits UpdateLCD(cycles) ORs into 0xFF0F from state w
Requests(w, cycles) ==
    UpdateLCDResult([w EXCEPT !.mem = [w.mem EXCEPT ![IFReg] = 0]],
                    cycles).mem[IFReg]

UpdateLCD(st, cycles) ==
    LET m0 == CpuStore(Memory, st)
        w == [mode |-> mode, modeClock |-> modeClock,
              currentLine |-> currentLine, mem |-> m0]
        on == lcdEnabled(m0) # 0
    IN  \E r \in {UpdateLCDResult(w, cycles)} :
        /\ mode' = r.mode
        /\ modeClock' = r.modeClock
        /\ currentLine' = r.currentLine
        /\ Memory' = r.mem
        /\ lastOp' = IF on THEN "on" ELSE "off"
        /\ prevMode' = mode
        /\ prevLine' = currentLine
        /\ raised' = Requests(w, cycles)
        /\ run' = ScenarioNext(on, cycles)
        /\ vbIncs' = VbIncsNext(on, cycles, r)
        /\ UNCHANGED schedVars

\* the program writes LYC while the display is off, and the STAT enable
\* bits while they are all clear (a disabled step clears them again)
Next ==
    \E st \in Stores, c \in CycleSteps :
        /\ st[1] = "lyc" => lcdEnabled(Memory) = 0
        /\ st[1] = "stat" => (Memory[stat] \div 8) % 16 = 0
        /\ UpdateLCD(st, c)

Spec == Init /\ [][Next]_vars

----------------------------------------------------------------------------
(* The frame scheduler Update and the parts of the CPU it drives.          *)
(* GbCPU.Regs.PC is a Go byte slice: after JPaa it is a view of the two    *)
(* operand bytes inside Memory (pcAlias is their address), after a         *)
(* non-jump instruction Update replaces it by a fresh array (NoAlias).     *)

maxCycles == 69905

IEReg == 65534

InterruptCycles == 16

HaltedTick == 1

VBlankVector == 64

TimerVector == 80

OpNOP == 0

OpJPaa == 195

ProgramAddrs == (0 .. 6) \cup (64 .. 67) \cup (80 .. 82)

StackAddrs == {65532, 65533}

BusDomain == MemDomain \cup {IEReg} \cup ProgramAddrs \cup StackAddrs

ToggleBit(v, n) == IF Bit(v, n) = 1 THEN v - 2 ^ n ELSE v + 2 ^ n

\* GbMMU.Memory is a zeroed array of which the model keeps the bytes in
\* use: a byte outside the kept domain reads as 0
Rd(mem, a) == IF a \in DOMAIN mem THEN mem[a] ELSE 0

Wr(mem, a, v) ==
    IF a \in DOMAIN mem THEN [mem EXCEPT ![a] = v]
    ELSE IF v = 0 THEN mem
    ELSE [x \in DOMAIN mem \cup {a} |-> IF x = a THEN v ELSE mem[x]]

\* the dispatch table: mnemonic, bytes the scheduler adds to PC after a
\* non-jump instruction (opcode and operands), base cycle cost
Instrs(op) ==
    CASE op = OpNOP -> [Mnemonic |-> "NOP", NumOperands |-> 1, TCycles |-> 4]
      [] op = OpJPaa ->
            [Mnemonic |-> "JP", NumOperands |-> 3, TCycles |-> 16]
      [] op = 24 -> [Mnemonic |-> "JR", NumOperands |-> 2, TCycles |-> 12]
      [] op \in {32, 40, 48, 56} ->
            [Mnemonic |-> "JR cc", NumOperands |-> 2, TCycles |-> 8]
      [] op = 118 ->
            [Mnemonic |-> "HALT", NumOperands |-> 1, TCycles |-> 4]
      [] op \in {192, 200, 208, 216} ->
            [Mnemonic |-> "RET cc", NumOperands |-> 1, TCycles |-> 8]
      [] op \in {193, 209, 225, 241} ->
            [Mnemonic |-> "POP", NumOperands |-> 1, TCycles |-> 12]
      [] op \in {194, 202, 210, 218} ->
            [Mnemonic |-> "JP cc", NumOperands |-> 3, TCycles |-> 12]
      [] op \in {196, 204, 212, 220} ->
            [Mnemonic |-> "CALL cc", NumOperands |-> 3, TCycles |-> 12]
      [] op \in {197, 213, 229, 245} ->
            [Mnemonic |-> "PUSH", NumOperands |-> 1, TCycles |-> 16]
      [] op = 201 -> [Mnemonic |-> "RET", NumOperands |-> 1, TCycles |-> 16]
      [] op = 205 ->
            [Mnemonic |-> "CALL", NumOperands |-> 3, TCycles |-> 24]
      [] op \in {207, 255} ->
            [Mnemonic |-> "RST", NumOperands |-> 1, TCycles |-> 16]
      [] op = 217 ->
            [Mnemonic |-> "RETI", NumOperands |-> 1, TCycles |-> 16]
      [] op = 233 ->
            [Mnemonic |-> "JP HL", NumOperands |-> 1, TCycles |-> 4]

\* binary.LittleEndian.Uint16(GbCPU.Regs.PC)
sliceToInt(c, mem) ==
    IF c.pcAlias = NoAlias
    THEN c.PC
    ELSE Rd(mem, c.pcAlias) + 256 * Rd(mem, Uint16(c.pcAlias + 1))

\* the address of the first byte of the slice getOperands returns
getOperands(c, mem) == Uint16(sliceToInt(c, mem) + 1)

\* what an executor leaves: the CPU, the memory and the extra cycles
Res(cpu, mem, delay) == [cpu |-> cpu, mem |-> mem, delay |-> delay]

\* binary.LittleEndian.PutUint16(gbcpu.Regs.PC, v): the bytes of the slice
\* are overwritten, in Memory when the slice is a view of it
PutPC(cpu, mem, v) ==
    IF cpu.pcAlias = NoAlias
    THEN [cpu |-> [cpu EXCEPT !.PC = v], mem |-> mem]
    ELSE [cpu |-> [cpu EXCEPT !.PC = v],
          mem |-> Wr(Wr(mem, cpu.pcAlias, v % 256),
                     Uint16(cpu.pcAlias + 1), v \div 256)]

incrementPC(cpu, mem, offset) ==
    PutPC(cpu, mem, Uint16(sliceToInt(cpu, mem) + offset))

JPaa(c, mem) ==
    LET jmpAddr == getOperands(c, mem)
    IN  [c EXCEPT !.pcAlias = jmpAddr,
                  !.PC = Rd(mem, jmpAddr) + 256 * Rd(mem, Uint16(jmpAddr + 1)),
                  !.Jumped = TRUE]

JPHL(cpu, reg1, reg2) ==
    [cpu EXCEPT !.PC = cpu[reg2] + 256 * cpu[reg1], !.pcAlias = NoAlias,
                !.Jumped = TRUE]

JPZaa(cpu, mem) ==
    IF Bit(cpu.f, 7) # 0 THEN Res(JPaa(cpu, mem), mem, 4)
    ELSE Res(cpu, mem, 0)

JPNZaa(cpu, mem) ==
    IF Bit(cpu.f, 7) = 0 THEN Res(JPaa(cpu, mem), mem, 4)
    ELSE Res(cpu, mem, 0)

JPCaa(cpu, mem) ==
    IF Bit(cpu.f, 4) # 0 THEN Res(JPaa(cpu, mem), mem, 4)
    ELSE Res(cpu, mem, 0)

JPNCaa(cpu, mem) ==
    IF Bit(cpu.f, 4) = 0 THEN Res(JPaa(cpu, mem), mem, 4)
    ELSE Res(cpu, mem, 0)

\* SP goes down by one and the byte is stored where it then points
pushByteToStack(s, b) ==
    LET sp == Uint16(s.cpu.SP + 65535)
    IN  [cpu |-> [s.cpu EXCEPT !.SP = sp], mem |-> Wr(s.mem, sp, b)]

\* the byte SP points at is read and SP goes up by one
popByteFromStack(s) ==
    [cpu |-> [s.cpu EXCEPT !.SP = Uint16(@ + 1)], mem |-> s.mem,
     b |-> Rd(s.mem, s.cpu.SP)]

\* CALLaa with the return address pushed low byte first
CALLaa_lowFirst(cpu, mem) ==
    LET nextInstr == Uint16(sliceToInt(cpu, mem) + 3)
        s1 == pushByteToStack([cpu |-> cpu, mem |-> mem], nextInstr % 256)
        s2 == pushByteToStack(s1, nextInstr \div 256)
    IN  Res(JPaa(s2.cpu, s2.mem), s2.mem, 0)

CALLaa(cpu, mem) ==
    LET nextInstr == Uint16(sliceToInt(cpu, mem) + 3)
        s1 == pushByteToStack([cpu |-> cpu, mem |-> mem], nextInstr \div 256)
        s2 == pushByteToStack(s1, nextInstr % 256)
    IN  Res(JPaa(s2.cpu, s2.mem), s2.mem, 0)

CALLZaa(cpu, mem) ==
    IF Bit(cpu.f, 7) # 0
    THEN [CALLaa(cpu, mem) EXCEPT !.delay = 12] ELSE Res(cpu, mem, 0)

CALLNZaa(cpu, mem) ==
    IF Bit(cpu.f, 7) = 0
    THEN [CALLaa(cpu, mem) EXCEPT !.delay = 12] ELSE Res(cpu, mem, 0)

CALLCaa(cpu, mem) ==
    IF Bit(cpu.f, 4) # 0
    THEN [CALLaa(cpu, mem) EXCEPT !.delay = 12] ELSE Res(cpu, mem, 0)

CALLNCaa(cpu, mem) ==
    IF Bit(cpu.f, 4) = 0
    THEN [CALLaa(cpu, mem) EXCEPT !.delay = 12] ELSE Res(cpu, mem, 0)

\* the body shared by JRn and the taken branch of JRZn .. JRNCn
RelativeJump(cpu, mem, operand) ==
    LET s1 == incrementPC(cpu, mem, 2)
        pc == sliceToInt(s1.cpu, s1.mem)
        newPC == IF operand > 127
                 THEN Uint16(pc + 65536 - (256 - operand))
                 ELSE Uint16(pc + operand)
        s2 == PutPC(s1.cpu, s1.mem, newPC)
    IN  [cpu |-> [s2.cpu EXCEPT !.Jumped = TRUE], mem |-> s2.mem]

JRn(cpu, mem) ==
    LET s == RelativeJump(cpu, mem, Rd(mem, getOperands(cpu, mem)))
    IN  Res(s.cpu, s.mem, 0)

JRZn(cpu, mem) ==
    IF Bit(cpu.f, 7) # 0
    THEN [JRn(cpu, mem) EXCEPT !.delay = 4] ELSE Res(cpu, mem, 0)

JRNZn(cpu, mem) ==
    IF Bit(cpu.f, 7) = 0
    THEN [JRn(cpu, mem) EXCEPT !.delay = 4] ELSE Res(cpu, mem, 0)

JRCn(cpu, mem) ==
    IF Bit(cpu.f, 4) # 0
    THEN [JRn(cpu, mem) EXCEPT !.delay = 4] ELSE Res(cpu, mem, 0)

JRNCn(cpu, mem) ==
    IF Bit(cpu.f, 4) = 0
    THEN [JRn(cpu, mem) EXCEPT !.delay = 4] ELSE Res(cpu, mem, 0)

RET(cpu, mem) ==
    LET p1 == popByteFromStack([cpu |-> cpu, mem |-> mem])
        p2 == popByteFromStack(p1)
    IN  Res([p2.cpu EXCEPT !.PC = p1.b + 256 * p2.b, !.pcAlias = NoAlias,
                           !.Jumped = TRUE], mem, 0)

RETI(cpu, mem) == RET(cpu, mem)

RETZ(cpu, mem) ==
    IF Bit(cpu.f, 7) # 0
    THEN [RET(cpu, mem) EXCEPT !.delay = 12] ELSE Res(cpu, mem, 0)

RETC(cpu, mem) ==
    IF Bit(cpu.f, 4) # 0
    THEN [RET(cpu, mem) EXCEPT !.delay = 12] ELSE Res(cpu, mem, 0)

\* RETNC returning when the carry flag is set
RETNC_onCarry(cpu, mem) ==
    IF Bit(cpu.f, 4) # 0
    THEN [RET(cpu, mem) EXCEPT !.delay = 12] ELSE Res(cpu, mem, 0)

RETNC(cpu, mem) ==
    IF Bit(cpu.f, 4) = 0
    THEN [RET(cpu, mem) EXCEPT !.delay = 12] ELSE Res(cpu, mem, 0)

RETNZ(cpu, mem) ==
    IF Bit(cpu.f, 7) = 0
    THEN [RET(cpu, mem) EXCEPT !.delay = 12] ELSE Res(cpu, mem, 0)

PUSHrr(cpu, mem, reg1, reg2) ==
    LET s1 == pushByteToStack([cpu |-> cpu, mem |-> mem], cpu[reg1])
        s2 == pushByteToStack(s1, cpu[reg2])
    IN  Res(s2.cpu, s2.mem, 0)

\* POPrr that stores the popped low byte in F as it is
POPrr_unmasked(cpu, mem, reg1, reg2) ==
    LET p1 == popByteFromStack([cpu |-> cpu, mem |-> mem])
        p2 == popByteFromStack(p1)
        c1 == [p2.cpu EXCEPT ![reg1] = p2.b]
    IN  Res([c1 EXCEPT ![reg2] = p1.b], mem, 0)

\* POPrr with the two popped bytes assigned the other way round
POPrr_swapped(cpu, mem, reg1, reg2) ==
    LET p1 == popByteFromStack([cpu |-> cpu, mem |-> mem])
        p2 == popByteFromStack(p1)
        c1 == [p2.cpu EXCEPT ![reg1] = p1.b]
        c2 == [c1 EXCEPT ![reg2] = p2.b]
    IN  Res([c2 EXCEPT !.f = @ - (@ % 16)], mem, 0)

POPrr(cpu, mem, reg1, reg2) ==
    LET p1 == popByteFromStack([cpu |-> cpu, mem |-> mem])
        p2 == popByteFromStack(p1)
        c1 == [p2.cpu EXCEPT ![reg1] = p2.b]
        c2 == [c1 EXCEPT ![reg2] = p1.b]
    IN  Res([c2 EXCEPT !.f = @ - (@ % 16)], mem, 0)

\* RST stores PC + 3 in the bytes of the stack pointer itself and leaves
\* Jumped alone
RST(cpu, mem, imm) ==
    Res([cpu EXCEPT !.SP = Uint16(sliceToInt(cpu, mem) + 3),
                    !.PC = imm, !.pcAlias = NoAlias], mem, 0)

\* the halt instruction parks the CPU and records the request register
HALT(cpu, mem) ==
    Res([cpu EXCEPT !.Halted = TRUE, !.IFPreHalt = mem[IFReg]], mem, 0)

\* Instrs[operation].Executor(): the CPU and memory it leaves and the
\* extra cycles it returns
Executor(op, c, mem) ==
    CASE op = OpNOP -> Res(c, mem, 0)
      [] op = OpJPaa -> Res(JPaa(c, mem), mem, 0)
      [] op = 24 -> JRn(c, mem)
      [] op = 32 -> JRNZn(c, mem)
      [] op = 40 -> JRZn(c, mem)
      [] op = 48 -> JRNCn(c, mem)
      [] op = 56 -> JRCn(c, mem)
      [] op = 118 -> HALT(c, mem)
      [] op = 192 -> RETNZ(c, mem)
      [] op = 193 -> POPrr(c, mem, "b", "c")
      [] op = 194 -> JPNZaa(c, mem)
      [] op = 196 -> CALLNZaa(c, mem)
      [] op = 197 -> PUSHrr(c, mem, "b", "c")
      [] op = 200 -> RETZ(c, mem)
      [] op = 201 -> RET(c, mem)
      [] op = 202 -> JPZaa(c, mem)
      [] op = 204 -> CALLZaa(c, mem)
      [] op = 205 -> CALLaa(c, mem)
      [] op = 207 -> RST(c, mem, 8)
      [] op = 208 -> RETNC(c, mem)
      [] op = 209 -> POPrr(c, mem, "d", "e")
      [] op = 210 -> JPNCaa(c, mem)
      [] op = 212 -> CALLNCaa(c, mem)
      [] op = 213 -> PUSHrr(c, mem, "d", "e")
      [] op = 216 -> RETC(c, mem)
      [] op = 217 -> RETI(c, mem)
      [] op = 218 -> JPCaa(c, mem)
      [] op = 220 -> CALLCaa(c, mem)
      [] op = 225 -> POPrr(c, mem, "h", "l")
      [] op = 229 -> PUSHrr(c, mem, "h", "l")
      [] op = 233 -> Res(JPHL(c, "h", "l"), mem, 0)
      [] op = 241 -> POPrr(c, mem, "a", "f")
      [] op = 245 -> PUSHrr(c, mem, "a", "f")
      [] op = 255 -> RST(c, mem, 56)

\* servicing an interrupt: the program counter goes on the stack (high
\* byte first, so the low byte lies at the lower address), the master
\* enable is cleared and execution continues at the vector
ServiceInterrupt(c, mem, vector) ==
    LET pc == sliceToInt(c, mem)
        s1 == pushByteToStack([cpu |-> c, mem |-> mem], pc \div 256)
        s2 == pushByteToStack(s1, pc % 256)
    IN  [cpu |-> [s2.cpu EXCEPT !.PC = vector, !.pcAlias = NoAlias,
                                !.IME = 0],
         mem |-> s2.mem]

RST40(c, mem) == ServiceInterrupt(c, mem, VBlankVector)

RST50(c, mem) == ServiceInterrupt(c, mem, TimerVector)

\* what an iteration's interrupt check saw and did: whether it ran, IME,
\* Memory[0xFFFE] and Memory[0xFF0F] as it read them, and the vector of
\* the handler it invoked (0 for none)
IrqRecord(checked, c, mem, vector) ==
    [checked |-> checked, ime |-> c.IME, ie |-> mem[IEReg],
     iflags |-> mem[IFReg], vector |-> vector]

\* InterruptCheck that does not look at IME
InterruptCheck_noIME(c, mem) ==
    IF Bit(mem[IEReg], 0) = 1 /\ Bit(mem[IFReg], 0) = 1
    THEN LET s == RST40(c, mem)
         IN  [cpu |-> s.cpu,
              mem |-> [s.mem EXCEPT ![IFReg] = ToggleBit(@, 0)],
              cycles |-> InterruptCycles,
              irq |-> IrqRecord(TRUE, c, mem, VBlankVector)]
    ELSE [cpu |-> c, mem |-> mem, cycles |-> 0,
          irq |-> IrqRecord(TRUE, c, mem, 0)]

\* the interrupt check of one iteration: the CPU and memory it leaves,
\* the cycles it adds to updateCycles, and its record
InterruptCheck(c, mem) ==
    IF c.IME # 0 /\ mem[IEReg] # 0 /\ mem[IFReg] # 0
    THEN IF Bit(mem[IEReg], 0) = 1 /\ Bit(mem[IFReg], 0) = 1
         THEN LET s == RST40(c, mem)
              IN  [cpu |-> s.cpu,
                   mem |-> [s.mem EXCEPT ![IFReg] = ToggleBit(@, 0)],
                   cycles |-> InterruptCycles,
                   irq |-> IrqRecord(TRUE, c, mem, VBlankVector)]
         ELSE IF Bit(mem[IEReg], 2) = 1 /\ Bit(mem[IFReg], 2) = 1
         THEN LET s == RST50(c, mem)
              IN  [cpu |-> s.cpu,
                   mem |-> [s.mem EXCEPT ![IFReg] = ToggleBit(@, 1)],
                   cycles |-> 0,
                   irq |-> IrqRecord(TRUE, c, mem, TimerVector)]
         ELSE [cpu |-> c, mem |-> mem, cycles |-> 0,
               irq |-> IrqRecord(TRUE, c, mem, 0)]
    ELSE [cpu |-> c, mem |-> mem, cycles |-> 0,
          irq |-> IrqRecord(TRUE, c, mem, 0)]

\* lcdEnabled of the scheduler's package: the masked LCDC bit itself
updateGraphics_lcdEnabled(mem) == 128 * Bit(mem[lcdc], 7)

\* setLCDStatus of the scheduler's package: the mode machine with the
\* VBlank request and no LCD-status requests
updateGraphics_setLCDStatus(w) ==
    LET line == Uint16(w.currentLine + 1)
        m1 == [w.mem EXCEPT ![ly] = Byte(@ + 1)]
        r ==
          CASE w.mode = 0 /\ w.modeClock >= HBlankCycles ->
                 IF line = VBlankStartLine
                 THEN [mode |-> 1, modeClock |-> 0, currentLine |-> line,
                       mem |-> [m1 EXCEPT
                                  ![stat] = ClearBit(SetBit(@, 0), 1),
                                  ![IFReg] = SetBit(@, 0)]]
                 ELSE [mode |-> 2, modeClock |-> 0, currentLine |-> line,
                       mem |-> [m1 EXCEPT
                                  ![stat] = SetBit(ClearBit(@, 0), 1)]]
            [] w.mode = 1 /\ w.modeClock >= VBlankLineCycles ->
                 IF line > LastLine
                 THEN [mode |-> 2, modeClock |-> 0, currentLine |-> 0,
                       mem |-> [m1 EXCEPT
                                  ![stat] = SetBit(ClearBit(@, 0), 1),
                                  ![ly] = 0]]
                 ELSE [mode |-> 1, modeClock |-> 0, currentLine |-> line,
                       mem |-> m1]
            [] w.mode = 2 /\ w.modeClock >= OAMCycles ->
                 [mode |-> 3, modeClock |-> 0, currentLine |-> w.currentLine,
                  mem |-> [w.mem EXCEPT ![stat] = SetBit(SetBit(@, 0), 1)]]
            [] w.mode = 3 /\ w.modeClock >= VRAMCycles ->
                 [mode |-> 0, modeClock |-> 0, currentLine |-> w.currentLine,
                  mem |-> [w.mem EXCEPT
                             ![stat] = ClearBit(ClearBit(@, 0), 1)]]
            [] OTHER -> w
    IN  [r EXCEPT !.mem = [r.mem EXCEPT
            ![stat] = IF r.mem[ly] = r.mem[lyc]
                      THEN SetBit(@, 2) ELSE ClearBit(@, 2)]]

updateGraphics(w, cycles) ==
    IF updateGraphics_lcdEnabled(w.mem) = 0
    THEN [mode |-> w.mode, modeClock |-> 0, currentLine |-> 0,
          mem |-> [w.mem EXCEPT ![ly] = 0, ![stat] = StatIdle]]
    ELSE updateGraphics_setLCDStatus(
             [w EXCEPT !.modeClock = Int16(@ + Int16(cycles))])

\* the loop condition of Update
LoopGuard(cycles) == cycles < maxCycles

\* HaltedIteration without the tick that charges the idle iteration
HaltedIteration_noTick(s) ==
    LET currentIF == s.lcd.mem[IFReg]
        c1 == IF currentIF # s.cpu.IFPreHalt
              THEN [s.cpu EXCEPT !.Halted = FALSE] ELSE s.cpu
        i == InterruptCheck(c1, s.lcd.mem)
    IN  [cpu |-> i.cpu, lcd |-> [s.lcd EXCEPT !.mem = i.mem],
         cycles |-> s.cycles + i.cycles, irq |-> i.irq]

\* HaltedIteration that wakes the CPU whatever 0xFF0F holds
HaltedIteration_wakes(s) ==
    LET i == InterruptCheck([s.cpu EXCEPT !.Halted = FALSE], s.lcd.mem)
    IN  [cpu |-> i.cpu, lcd |-> [s.lcd EXCEPT !.mem = i.mem],
         cycles |-> s.cycles + i.cycles + HaltedTick, irq |-> i.irq]

\* one iteration of the loop with the CPU halted, from scheduler state
\* s = [cpu, lcd, cycles] where lcd is a controller record holding Memory
HaltedIteration(s) ==
    LET currentIF == s.lcd.mem[IFReg]
        c1 == IF currentIF # s.cpu.IFPreHalt
              THEN [s.cpu EXCEPT !.Halted = FALSE] ELSE s.cpu
        i == InterruptCheck(c1, s.lcd.mem)
    IN  [cpu |-> i.cpu, lcd |-> [s.lcd EXCEPT !.mem = i.mem],
         cycles |-> s.cycles + i.cycles + HaltedTick, irq |-> i.irq]

----------------------------------------------------------------------------
(* Inputs of the scheduler: the cartridge image, the CPU and register      *)
(* states a frame starts from, and the number of frames.                   *)

MaxCalls == 2

\* 0000 NOP; 0001 JP 0000; 0004 JP 0004; 0040 NOP; 0041 JP 0040;
\* 0050 JP 0050
Program ==
    [a \in BusDomain |->
        CASE a \in {1, 4, 65, 80} -> OpJPaa
          [] a = 5 -> 4
          [] a = 66 -> 64
          [] a = 81 -> 80
          [] OTHER -> 0]

\* [pc, halted, ime, ie, iflags, ifpre, lcdc]: a jump-to-self loop with the
\* display off; a NOP loop interrupted at VBlank; a CPU halted for good on
\* a request that IME masks; a pending timer request; a halted CPU woken by
\* a pending VBlank request; a pending LCD-status request
StartStates ==
    { [pc |-> 4, halted |-> FALSE, ime |-> 0, ie |-> 0, iflags |-> 0,
       ifpre |-> 0, lcdc |-> 0],
      [pc |-> 0, halted |-> FALSE, ime |-> 1, ie |-> 1, iflags |-> 0,
       ifpre |-> 0, lcdc |-> 128],
      [pc |-> 0, halted |-> TRUE, ime |-> 0, ie |-> 1, iflags |-> 1,
       ifpre |-> 1, lcdc |-> 128],
      [pc |-> 0, halted |-> FALSE, ime |-> 1, ie |-> 4, iflags |-> 4,
       ifpre |-> 0, lcdc |-> 0],
      [pc |-> 0, halted |-> TRUE, ime |-> 1, ie |-> 1, iflags |-> 1,
       ifpre |-> 0, lcdc |-> 128],
      [pc |-> 0, halted |-> FALSE, ime |-> 1, ie |-> 2, iflags |-> 2,
       ifpre |-> 0, lcdc |-> 0],
      [pc |-> 4, halted |-> FALSE, ime |-> 1, ie |-> 1, iflags |-> 1,
       ifpre |-> 0, lcdc |-> 0] }

InitSched ==
    /\ InitLCD
    /\ \E st \in StartStates :
          /\ GbCPU = [PC |-> st.pc, pcAlias |-> NoAlias, SP |-> StackTop,
                      IME |-> st.ime, Halted |-> st.halted,
                      EIReceived |-> FALSE, Jumped |-> FALSE,
                      IFPreHalt |-> st.ifpre, a |-> 0, f |-> 0, b |-> 0,
                      c |-> 0, d |-> 0, e |-> 0, h |-> 0, l |-> 0]
          /\ Memory = [Program EXCEPT ![IEReg] = st.ie,
                                      ![IFReg] = st.iflags,
                                      ![lcdc] = st.lcdc]
    /\ phase = "idle"
    /\ calls = 0
    /\ updateCycles = 0
    /\ prevCycles = 0
    /\ hist = <<>>
    /\ Cart = NoCart
    /\ drawn = NoFrame
    /\ fed = NoFeed
    /\ lastOp = "init"
    /\ prevMode = 2
    /\ prevLine = 0
    /\ raised = 0
    /\ run = 0
    /\ vbIncs = -1

\* Update is called: updateCycles := 0
UpdateEnter ==
    /\ phase = "idle"
    /\ calls < MaxCalls
    /\ phase' = "loop"
    /\ calls' = calls + 1
    /\ updateCycles' = 0
    /\ prevCycles' = 0
    /\ UNCHANGED <<lcdVars, histVars, GbCPU, hist, Cart, drawn, fed>>

SchedState ==
    [cpu |-> GbCPU,
     lcd |-> [mode |-> mode, modeClock |-> modeClock,
              currentLine |-> currentLine, mem |-> Memory],
     cycles |-> updateCycles]

\* the record of one iteration: the scheduler state it started from, the
\* branch taken, the opcode fetched and its address (-1 when halted), the
\* extra cycles the executor returned, and the interrupt check's record
StepRecord(kind, op, addr, delay, irq) ==
    [pre |-> SchedState, kind |-> kind, op |-> op, addr |-> addr,
     delay |-> delay, irq |-> irq]

Commit(r, h) ==
    /\ GbCPU' = r.cpu
    /\ mode' = r.lcd.mode
    /\ modeClock' = r.lcd.modeClock
    /\ currentLine' = r.lcd.currentLine
    /\ Memory' = r.lcd.mem
    /\ updateCycles' = r.cycles
    /\ prevCycles' = updateCycles
    /\ hist' = IF hist = <<>> THEN <<h>> ELSE <<h, hist[1]>>
    /\ UNCHANGED <<histVars, phase, calls, Cart, drawn, fed>>

\* one iteration of the loop with the CPU running
UpdateRun ==
    /\ phase = "loop"
    /\ LoopGuard(updateCycles)
    /\ ~GbCPU.Halted
    /\ \E c1 \in {[GbCPU EXCEPT !.IME = IF GbCPU.EIReceived THEN 1 ELSE @,
                                 !.Jumped = FALSE]} :
       \E opcodeInt \in {sliceToInt(c1, Memory)} :
       \E operation \in {Rd(Memory, opcodeInt)} :
       \E e \in {Executor(operation, c1, Memory)} :
       \E t \in {Instrs(operation).TCycles + e.delay} :
       \E g \in {updateGraphics([SchedState.lcd EXCEPT !.mem = e.mem], t)} :
          IF e.cpu.Jumped
          THEN Commit([cpu |-> e.cpu, lcd |-> g,
                       cycles |-> updateCycles + t],
                      StepRecord("run", operation, opcodeInt, e.delay,
                                 IrqRecord(FALSE, e.cpu, g.mem, 0)))
          ELSE \E nextInstr \in
                      {Uint16(sliceToInt(e.cpu, g.mem)
                              + Instrs(operation).NumOperands)} :
               \E i \in {InterruptCheck(
                             [e.cpu EXCEPT !.PC = nextInstr,
                                           !.pcAlias = NoAlias], g.mem)} :
                  Commit([cpu |-> i.cpu, lcd |-> [g EXCEPT !.mem = i.mem],
                          cycles |-> updateCycles + t + i.cycles],
                         StepRecord("run", operation, opcodeInt, e.delay,
                                    i.irq))

\* one iteration of the loop with the CPU halted
UpdateHalted ==
    /\ phase = "loop"
    /\ LoopGuard(updateCycles)
    /\ GbCPU.Halted
    /\ \E r \in {HaltedIteration(SchedState)} :
          Commit(r, StepRecord("halted", -1, -1, 0, r.irq))

\* the loop condition fails: Update returns
UpdateReturn ==
    /\ phase = "loop"
    /\ ~LoopGuard(updateCycles)
    /\ phase' = "idle"
    /\ UNCHANGED <<lcdVars, histVars, GbCPU, calls, updateCycles, prevCycles,
                   hist, Cart, drawn, fed>>

NextSched == UpdateEnter \/ UpdateRun \/ UpdateHalted \/ UpdateReturn

\* the loop is sequential code and the host calls Update every frame
SpecSched == InitSched /\ [][NextSched]_vars /\ WF_vars(NextSched)

----------------------------------------------------------------------------
(* The last iterations of a frame, for the CPU's instructions: Update is   *)
(* in its loop with StepCycles cycles of the budget left and the program   *)
(* counter at the first of two instructions.                               *)

StepCycles == 48

\* the opcodes of the dispatch table above
Opcodes ==
    {OpNOP, OpJPaa, 24, 32, 40, 48, 56, 118, 192, 193, 194, 196, 197, 200,
     201, 202, 204, 205, 207, 208, 209, 210, 212, 213, 216, 217, 218, 220,
     225, 229, 233, 241, 245, 255}

\* the second instruction with its operand byte: NOP, RET, RETI, the four
\* POPs and JR +2
SecondInstrs ==
    {<<0, 0>>, <<201, 0>>, <<217, 0>>, <<193, 0>>, <<209, 0>>, <<225, 0>>,
     <<241, 0>>, <<24, 2>>}

\* the first instruction at 0000 with operands that lead to 0010 (JR +14,
\* JP/CALL 0010), the second one both behind it and at 0010, and the
\* return address 0010 on top of the stack
Image(op1, snd) ==
    LET len == Instrs(op1).NumOperands
        code == [a \in {0, 1, 2, 3, 4, 16, 17} |->
                   CASE a = 0 -> op1
                     [] a = 1 /\ len = 2 -> 14
                     [] a = 1 /\ len = 3 -> 16
                     [] a = len \/ a = 16 -> snd[1]
                     [] a = len + 1 \/ a = 17 -> snd[2]
                     [] OTHER -> 0]
    IN  [a \in MemDomain \cup {IEReg, 65532, 65533} \cup DOMAIN code |->
            IF a \in DOMAIN code THEN code[a]
            ELSE IF a = 65532 THEN 16 ELSE 0]

\* register contents: the values the boot ROM leaves, and a second set
\* whose pairs DE and HL point at the instruction at 0010
RegChoices ==
    { [a |-> 1, b |-> 0, c |-> 19, d |-> 0, e |-> 216, h |-> 1, l |-> 77],
      [a |-> 165, b |-> 18, c |-> 63, d |-> 0, e |-> 16, h |-> 0, l |-> 16] }

\* the flag register: Zero (bit 7) and Carry (bit 4) clear or set
FlagValues == {0, 16, 128, 144}

InitStep ==
    /\ InitLCD
    /\ \E op1 \in Opcodes, snd \in SecondInstrs, r \in RegChoices,
          fl \in FlagValues, ime \in {0, 1} :
          /\ GbCPU = [PC |-> 0, pcAlias |-> NoAlias, SP |-> 65532,
                      IME |-> ime, Halted |-> FALSE, EIReceived |-> FALSE,
                      Jumped |-> FALSE, IFPreHalt |-> 0,
                      a |-> r.a, f |-> fl, b |-> r.b, c |-> r.c,
                      d |-> r.d, e |-> r.e, h |-> r.h, l |-> r.l]
          /\ Memory = Image(op1, snd)
    /\ phase = "loop"
    /\ calls = 1
    /\ updateCycles = maxCycles - StepCycles
    /\ prevCycles = maxCycles - StepCycles
    /\ hist = <<>>
    /\ Cart = NoCart
    /\ drawn = NoFrame
    /\ fed = NoFeed
    /\ lastOp = "init"
    /\ prevMode = 2
    /\ prevLine = 0
    /\ raised = 0
    /\ run = 0
    /\ vbIncs = -1

NextStep == UpdateRun \/ UpdateHalted \/ UpdateReturn

SpecStep == InitStep /\ [][NextStep]_vars

----------------------------------------------------------------------------
(* The arithmetic and logic executors of the CPU.  An executor takes the   *)
(* CPU (and the memory it reads) and gives the CPU it leaves; the register *)
(* pointers of the Go code are register names.                             *)

\* the flag accessors of Registers: Zero, Subtract, HalfCarry and Carry are
\* bits 7, 6, 5 and 4 of F
setZero(cpu) == [cpu EXCEPT !.f = SetBit(@, 7)]

clearZero(cpu) == [cpu EXCEPT !.f = ClearBit(@, 7)]

setSubtract(cpu) == [cpu EXCEPT !.f = SetBit(@, 6)]

clearSubtract(cpu) == [cpu EXCEPT !.f = ClearBit(@, 6)]

setHalfCarry(cpu) == [cpu EXCEPT !.f = SetBit(@, 5)]

clearHalfCarry(cpu) == [cpu EXCEPT !.f = ClearBit(@, 5)]

setCarry(cpu) == [cpu EXCEPT !.f = SetBit(@, 4)]

clearCarry(cpu) == [cpu EXCEPT !.f = ClearBit(@, 4)]

getCarry(cpu) == Bit(cpu.f, 4)

\* Registers.JoinRegs and Registers.SplitWord
JoinRegs(cpu, hi, lo) == cpu[lo] + 256 * cpu[hi]

SplitWord(cpu, hi, lo, word) ==
    [cpu EXCEPT ![hi] = word \div 256, ![lo] = word % 256]

\* the operand byte behind the opcode, getOperands(1)[0]
Operand8(cpu, mem) == Rd(mem, getOperands(cpu, mem))

\* the byte at the address held by a register pair
MemoryAt(cpu, mem, a1, a2) == Rd(mem, JoinRegs(cpu, a1, a2))

\* the flag updates the 8-bit additions share: Zero from the result left in
\* reg, Carry when the result is below the old value, HalfCarry as
\* computed before the store, Subtract cleared
AddFlags(cpu, reg, oldVal, hc) ==
    LET z == IF cpu[reg] = 0 THEN setZero(cpu) ELSE clearZero(cpu)
        c == IF z[reg] < oldVal THEN setCarry(z) ELSE clearCarry(z)
        h == IF hc THEN setHalfCarry(c) ELSE clearHalfCarry(c)
    IN  clearSubtract(h)

\* hc := (((x & 0xf) + (y & 0xf)) & 0x10) == 0x10
AddHalfCarry(x, y) == Bit((x % 16) + (y % 16), 4) = 1

\* ADDrr that also sets Carry when the result equals the old value
ADDrr_carryOnEqual(cpu, reg1, reg2) ==
    LET oldVal == cpu[reg1]
        result == Byte(cpu[reg1] + cpu[reg2])
        hc == AddHalfCarry(cpu[reg1], cpu[reg2])
    IN  AddFlags([cpu EXCEPT ![reg1] = result], reg1, oldVal + 1, hc)

ADDrr(cpu, reg1, reg2) ==
    LET oldVal == cpu[reg1]
        result == Byte(cpu[reg1] + cpu[reg2])
        hc == AddHalfCarry(cpu[reg1], cpu[reg2])
    IN  AddFlags([cpu EXCEPT ![reg1] = result], reg1, oldVal, hc)

ADDAn(cpu, mem) ==
    LET oldVal == cpu.a
        operand == Operand8(cpu, mem)
        hc == AddHalfCarry(cpu.a, operand)
    IN  AddFlags([cpu EXCEPT !.a = Byte(cpu.a + operand)], "a", oldVal, hc)

ADDraa(cpu, mem, reg, a1, a2) ==
    LET operand == MemoryAt(cpu, mem, a1, a2)
        oldVal == cpu[reg]
        result == Byte(cpu[reg] + operand)
        hc == AddHalfCarry(cpu[reg], operand)
    IN  AddFlags([cpu EXCEPT ![reg] = result], reg, oldVal, hc)

\* ADCAn and ADCrr set Carry and HalfCarry from the integer sums before
\* the store, then Zero from the stored byte
ADCAn(cpu, mem) ==
    LET carry == getCarry(cpu)
        operand == Operand8(cpu, mem)
        c == IF cpu.a + operand + carry > 255
             THEN setCarry(cpu) ELSE clearCarry(cpu)
        h == IF (cpu.a % 16) + (operand % 16) + carry > 15
             THEN setHalfCarry(c) ELSE clearHalfCarry(c)
        s == [h EXCEPT !.a = Byte(@ + Byte(operand + carry))]
        z == IF s.a = 0 THEN setZero(s) ELSE clearZero(s)
    IN  clearSubtract(z)

ADCrr(cpu, reg1, reg2) ==
    LET carry == getCarry(cpu)
        h == IF (cpu[reg1] % 16) + (cpu[reg2] % 16) + carry > 15
             THEN setHalfCarry(cpu) ELSE clearHalfCarry(cpu)
        c == IF cpu[reg1] + cpu[reg2] + carry > 255
             THEN setCarry(h) ELSE clearCarry(h)
        s == [c EXCEPT ![reg1] = Byte(@ + Byte(c[reg2] + carry))]
        z == IF s[reg1] = 0 THEN setZero(s) ELSE clearZero(s)
    IN  clearSubtract(z)

\* ADCraa adds in bytes and takes Carry from result < oldVal
ADCraa(cpu, mem, reg, a1, a2) ==
    LET operand == MemoryAt(cpu, mem, a1, a2)
        oldVal == cpu[reg]
        result == Byte(cpu[reg] + operand + getCarry(cpu))
        hc == Bit((cpu[reg] % 16) + (operand % 16) + (getCarry(cpu) % 16), 4)
                  = 1
    IN  AddFlags([cpu EXCEPT ![reg] = result], reg, oldVal, hc)

\* the flags ANDr and ANDn leave: Zero from A, then Subtract cleared,
\* HalfCarry set, Carry cleared
AndFlags(cpu) ==
    LET z == IF cpu.a = 0 THEN setZero(cpu) ELSE clearZero(cpu)
    IN  clearCarry(setHalfCarry(clearSubtract(z)))

\* bitwise AND of two bytes
RECURSIVE AndBits(_, _, _)
AndBits(x, y, n) ==
    IF n = 0 THEN 0
    ELSE (x % 2) * (y % 2) + 2 * AndBits(x \div 2, y \div 2, n - 1)

\* ANDr that leaves Carry as it was
ANDr_keepsCarry(cpu, reg) ==
    LET s == [cpu EXCEPT !.a = AndBits(@, cpu[reg], 8)]
        z == IF s.a = 0 THEN setZero(s) ELSE clearZero(s)
    IN  setHalfCarry(clearSubtract(z))

ANDr(cpu, reg) == AndFlags([cpu EXCEPT !.a = AndBits(@, cpu[reg], 8)])

ANDn(cpu, mem) ==
    AndFlags([cpu EXCEPT !.a = AndBits(@, Operand8(cpu, mem), 8)])

\* hc := (((x & 0xf) - (y & 0xf)) & 0x10) == 0x10, in bytes
SubHalfCarry(x, y) == Bit(Byte((x % 16) - (y % 16) + 256), 4) = 1

\* the flag updates the byte subtractions share: Zero from the result,
\* Carry when the result is above oldVal, HalfCarry as computed before,
\* Subtract set
SubFlags(cpu, result, oldVal, hc) ==
    LET z == IF result = 0 THEN setZero(cpu) ELSE clearZero(cpu)
        c == IF result > oldVal THEN setCarry(z) ELSE clearCarry(z)
        h == IF hc THEN setHalfCarry(c) ELSE clearHalfCarry(c)
    IN  setSubtract(h)

SUBn(cpu, mem) ==
    LET oldVal == cpu.a
        operand == Operand8(cpu, mem)
        result == Byte(cpu.a - operand + 256)
        hc == SubHalfCarry(cpu.a, operand)
    IN  SubFlags([cpu EXCEPT !.a = result], result, oldVal, hc)

\* SUBr stores a - *reg through reg and compares with the old *reg
SUBr(cpu, reg) ==
    LET oldVal == cpu[reg]
        hc == SubHalfCarry(cpu.a, cpu[reg])
        result == Byte(cpu.a - cpu[reg] + 256)
    IN  SubFlags([cpu EXCEPT ![reg] = result], result, oldVal, hc)

SUBaa(cpu, mem, a1, a2) ==
    LET operand == MemoryAt(cpu, mem, a1, a2)
        oldVal == cpu.a
        hc == SubHalfCarry(cpu.a, operand)
        result == Byte(cpu.a - operand + 256)
    IN  SubFlags([cpu EXCEPT !.a = result], result, oldVal, hc)

\* SBCrr and SBCraa add the carry to the operand in a byte first
SBCrr(cpu, reg1, reg2) ==
    LET oldVal == cpu[reg1]
        sum == Byte(cpu[reg2] + getCarry(cpu))
        result == Byte(cpu[reg1] - sum + 256)
        hc == SubHalfCarry(cpu[reg1], sum)
    IN  SubFlags([cpu EXCEPT ![reg1] = result], result, oldVal, hc)

\* SBCAn subtracts in integers: Carry from result < 0, HalfCarry from bit 4
\* of result ^ operand ^ a
SBCAn(cpu, mem) ==
    LET carry == getCarry(cpu)
        operand == Operand8(cpu, mem)
        diff == cpu.a - operand - carry
        c == IF diff < 0 THEN setCarry(cpu) ELSE clearCarry(cpu)
        result == Byte(diff + 256)
        z == IF result = 0 THEN setZero(c) ELSE clearZero(c)
        h == IF (Bit(result, 4) + Bit(operand, 4) + Bit(cpu.a, 4)) % 2 = 1
             THEN setHalfCarry(z) ELSE clearHalfCarry(z)
    IN  setSubtract([h EXCEPT !.a = result])

SBCraa(cpu, mem, reg, a1, a2) ==
    LET oldVal == cpu[reg]
        operand == MemoryAt(cpu, mem, a1, a2)
        sum == Byte(operand + getCarry(cpu))
        hc == SubHalfCarry(cpu[reg], sum)
        result == Byte(cpu[reg] - sum + 256)
    IN  SubFlags([cpu EXCEPT ![reg] = result], result, oldVal, hc)

\* the flag updates of the compares: as SubFlags with the Carry condition
\* given by the caller
CpFlags(cpu, sub, carry, hc) ==
    LET z == IF sub = 0 THEN setZero(cpu) ELSE clearZero(cpu)
        c == IF carry THEN setCarry(z) ELSE clearCarry(z)
        h == IF hc THEN setHalfCarry(c) ELSE clearHalfCarry(c)
    IN  setSubtract(h)

\* CPr sets Carry when a < *reg
CPr(cpu, reg) ==
    CpFlags(cpu, Byte(cpu.a - cpu[reg] + 256), cpu.a < cpu[reg],
            SubHalfCarry(cpu.a, cpu[reg]))

\* CPn and CPaa set Carry when the difference is above the old A
CPn(cpu, mem) ==
    LET operand == Operand8(cpu, mem)
        sub == Byte(cpu.a - operand + 256)
    IN  CpFlags(cpu, sub, sub > cpu.a, SubHalfCarry(cpu.a, operand))

CPaa(cpu, mem, a1, a2) ==
    LET operand == MemoryAt(cpu, mem, a1, a2)
        sub == Byte(cpu.a - operand + 256)
    IN  CpFlags(cpu, sub, sub > cpu.a, SubHalfCarry(cpu.a, operand))

\* bit n of x ^ y ^ z
XorBit(x, y, z, n) == (Bit(x, n) + Bit(y, n) + Bit(z, n)) % 2

\* ADDHLrr takes HalfCarry from the low nibbles of the two words
ADDHLrr(cpu, reg1, reg2) ==
    LET hlInt == JoinRegs(cpu, "h", "l")
        rrInt == JoinRegs(cpu, reg1, reg2)
        sum == Uint16(rrInt + hlInt)
        hc == AddHalfCarry(rrInt, hlInt)
        s == SplitWord(cpu, "h", "l", sum)
        c == IF sum < hlInt THEN setCarry(s) ELSE clearCarry(s)
        h == IF hc THEN setHalfCarry(c) ELSE clearHalfCarry(c)
    IN  clearSubtract(h)

\* SP + s8 as ADDSPs and LDHLSPs form it, converted to uint16
SignedSum(sp, operand) ==
    IF operand > 127
    THEN Uint16(sp - (256 - operand) + 65536)
    ELSE Uint16(sp + operand)

\* Carry and HalfCarry from bits 8 and 4 of
\* sp ^ operand ^ ((sp + operand) & 0xFFFF)
SignedSumFlags(cpu, sp, operand) ==
    LET c == IF XorBit(sp, operand, Uint16(sp + operand), 8) = 1
             THEN setCarry(cpu) ELSE clearCarry(cpu)
    IN  IF XorBit(sp, operand, Uint16(sp + operand), 4) = 1
        THEN setHalfCarry(c) ELSE clearHalfCarry(c)

ADDSPs(cpu, mem) ==
    LET operand == Operand8(cpu, mem)
        sp == cpu.SP
        result == SignedSum(sp, operand)
        fl == SignedSumFlags(cpu, sp, operand)
    IN  clearSubtract(clearZero([fl EXCEPT !.SP = result]))

\* LDHLSPs that adds the operand as an unsigned byte
LDHLSPs_unsigned(cpu, mem) ==
    LET operand == Operand8(cpu, mem)
        sp == cpu.SP
        result == Uint16(sp + operand)
        fl == SignedSumFlags(cpu, sp, operand)
    IN  clearSubtract(clearZero(SplitWord(fl, "h", "l", result)))

LDHLSPs(cpu, mem) ==
    LET operand == Operand8(cpu, mem)
        sp == cpu.SP
        result == SignedSum(sp, operand)
        fl == SignedSumFlags(cpu, sp, operand)
    IN  clearSubtract(clearZero(SplitWord(fl, "h", "l", result)))

\* ADDHLSP takes HalfCarry from bit 12 of result ^ sp ^ hl
ADDHLSP(cpu) ==
    LET hl == JoinRegs(cpu, "h", "l")
        sp == cpu.SP
        result == Uint16(hl + sp)
        c == IF result < hl THEN setCarry(cpu) ELSE clearCarry(cpu)
        h == IF XorBit(result, sp, hl, 12) = 1
             THEN setHalfCarry(c) ELSE clearHalfCarry(c)
    IN  clearSubtract(SplitWord(h, "h", "l", result))

\* the size of GbMMU.Memory
MemorySize == 65536

\* a slice expression Memory[begin:end] panics unless
\* begin <= end <= len(Memory)
SlicePanics(begin, end) == begin > end \/ end > MemorySize

\* getOperands(number): Memory[PC+1 : PC+1+number] with both bounds
\* computed in uint16
getOperandsPanics(cpu, mem, number) ==
    SlicePanics(Uint16(sliceToInt(cpu, mem) + 1),
                Uint16(sliceToInt(cpu, mem) + 1 + number))

\* getValCartAddr(a1, a2, number): Memory[begin : begin + (number - 1)],
\* a slice of number - 1 bytes
getValCartAddr(cpu, a1, a2, number) ==
    LET begin == JoinRegs(cpu, a1, a2)
        end == Uint16(begin + (number - 1))
    IN  [begin |-> begin, len |-> end - begin,
         panics |-> SlicePanics(begin, end)]

\* ANDaa indexes element 0 of a slice of 0 bytes
ANDaa(cpu, mem, a1, a2) ==
    LET val == getValCartAddr(cpu, a1, a2, 1)
    IN  IF val.panics \/ val.len < 1
        THEN [panics |-> TRUE, cpu |-> cpu]
        ELSE LET s == [cpu EXCEPT !.a = AndBits(@, Rd(mem, val.begin), 8)]
             IN  [panics |-> FALSE,
                  cpu |-> IF s.a = 0 THEN setZero(s) ELSE clearZero(s)]

\* INCaa reads a uint16 from a slice of 1 byte
INCaa(cpu, mem, reg1, reg2) ==
    LET val == getValCartAddr(cpu, reg1, reg2, 2)
    IN  IF val.panics \/ val.len < 2
        THEN [panics |-> TRUE, cpu |-> cpu]
        ELSE LET intVal == Uint16(Rd(mem, val.begin)
                                  + 256 * Rd(mem, val.begin + 1) + 1)
             IN  [panics |-> FALSE,
                  cpu |-> [cpu EXCEPT ![reg1] = intVal % 256,
                                      ![reg2] = intVal \div 256]]

\* ORaa reads the byte at a1:a2 and sets or clears Zero; it touches no
\* other flag
ORaa(cpu, mem, a1, a2) ==
    LET val == MemoryAt(cpu, mem, a1, a2)
        s == [cpu EXCEPT !.a = @ + val - AndBits(@, val, 8)]
    IN  IF s.a = 0 THEN setZero(s) ELSE clearZero(s)

\* LDDaaR stores *reg at a1:a2 and then decrements *reg
LDDaaR(cpu, mem, a1, a2, reg) ==
    [cpu |-> [cpu EXCEPT ![reg] = Byte(@ + 255)],
     mem |-> Wr(mem, JoinRegs(cpu, a1, a2), cpu[reg])]

\* LDIaaR stores *reg at a1:a2 and then calls incrementHL(1)
LDIaaR(cpu, mem, a1, a2, reg) ==
    [cpu |-> SplitWord(cpu, "h", "l", Uint16(JoinRegs(cpu, "h", "l") + 1)),
     mem |-> Wr(mem, JoinRegs(cpu, a1, a2), cpu[reg])]

----------------------------------------------------------------------------
(* One instruction of the arithmetic and logic group, applied to a CPU and *)
(* a memory drawn from the inputs: the executor runs once ("ready" to      *)
(* "done"), or the Go runtime panics in it ("panic").                      *)

ByteSamples == {0, 1, 8, 15, 16, 17, 127, 128, 129, 240, 254, 255}

FlagSamples == {0, 16, 224, 240}

WordSamples ==
    {0, 1, 15, 255, 256, 4095, 4096, 32767, 32768, 61441, 65280, 65535}

\* the inputs: the accumulator, the operand byte (in B and C, behind the
\* opcode, at the address in HL and on top of the stack), the words in HL
\* and in DE and SP, the flags and the program counter.  Byte operands with
\* fixed pointers, word operands with a few bytes, and program counters
\* and pointers at the top of the address space.
AluInputs ==
    [a : ByteSamples, operand : ByteSamples, hl : {49152}, sp : {53248},
     f : FlagSamples, pc : {256}]
    \cup [a : {0}, operand : {1, 127, 128, 255}, hl : WordSamples,
          sp : WordSamples, f : {0, 240}, pc : {256}]
    \cup [a : {0, 255}, operand : {1, 255}, hl : {49152, 65535},
          sp : {53248}, f : {0}, pc : {65534, 65535}]

\* the memory of an input: zero but for the operand bytes
AluImage(in) ==
    LET zero == [x \in MemDomain \cup {IEReg} |-> 0]
        m1 == Wr(zero, Uint16(in.sp + 1), in.a)
        m2 == Wr(m1, in.sp, in.operand)
        m3 == Wr(m2, Uint16(in.pc + 1), in.operand)
    IN  Wr(m3, in.hl, in.operand)

\* the register pairs an executor is called with, high register first
RegPair(name) ==
    CASE name = "bc" -> <<"b", "c">>
      [] name = "de" -> <<"d", "e">>
      [] name = "hl" -> <<"h", "l">>
      [] OTHER -> <<"a", "f">>

InitALU ==
    /\ InitLCD
    /\ \E in \in AluInputs :
          /\ GbCPU = [PC |-> in.pc, pcAlias |-> NoAlias, SP |-> in.sp,
                      IME |-> 0, Halted |-> FALSE, EIReceived |-> FALSE,
                      Jumped |-> FALSE, IFPreHalt |-> 0,
                      a |-> in.a, f |-> in.f, b |-> in.operand,
                      c |-> in.operand, d |-> in.sp \div 256,
                      e |-> in.sp % 256, h |-> in.hl \div 256,
                      l |-> in.hl % 256]
          /\ Memory = AluImage(in)
    /\ phase = "ready"
    /\ calls = 0
    /\ updateCycles = 0
    /\ prevCycles = 0
    /\ hist = <<>>
    /\ Cart = NoCart
    /\ drawn = NoFrame
    /\ fed = NoFeed
    /\ lastOp = "init"
    /\ prevMode = 2
    /\ prevLine = 0
    /\ raised = 0
    /\ run = 0
    /\ vbIncs = -1

\* the record of one executed instruction: the state it started from, the
\* executor and the register or pair it was called with
AluRecord(kind, reg) ==
    [pre |-> SchedState, kind |-> kind, op |-> -1, addr |-> -1, delay |-> 0,
     irq |-> IrqRecord(FALSE, GbCPU, Memory, 0), reg |-> reg]

\* the executor returned and left cpu
Retire(kind, reg, cpu) ==
    /\ phase = "ready"
    /\ GbCPU' = cpu
    /\ phase' = "done"
    /\ hist' = <<AluRecord(kind, reg)>>
    /\ UNCHANGED <<lcdVars, histVars, calls, updateCycles, prevCycles, Cart,
                   drawn, fed>>

\* the executor panicked
Abort(kind, reg) ==
    /\ phase = "ready"
    /\ phase' = "panic"
    /\ hist' = <<AluRecord(kind, reg)>>
    /\ UNCHANGED <<lcdVars, histVars, GbCPU, calls, updateCycles,
                   prevCycles, Cart, drawn, fed>>

\* an executor that starts with getOperands(1)
Immediate(kind, cpu) ==
    IF getOperandsPanics(GbCPU, Memory, 1)
    THEN Abort(kind, "n") ELSE Retire(kind, "n", cpu)

\* an executor that can panic in getValCartAddr
Checked(kind, reg, r) ==
    IF r.panics THEN Abort(kind, reg) ELSE Retire(kind, reg, r.cpu)

\* ADD A,r / ADD A,n / ADD A,(HL)
StepADD ==
    \/ \E reg2 \in {"a", "b"} : Retire("ADDrr", reg2, ADDrr(GbCPU, "a", reg2))
    \/ Immediate("ADDAn", ADDAn(GbCPU, Memory))
    \/ Retire("ADDraa", "hl", ADDraa(GbCPU, Memory, "a", "h", "l"))

\* ADC A,r / ADC A,n / ADC A,(HL)
StepADC ==
    \/ \E reg2 \in {"a", "b"} : Retire("ADCrr", reg2, ADCrr(GbCPU, "a", reg2))
    \/ Immediate("ADCAn", ADCAn(GbCPU, Memory))
    \/ Retire("ADCraa", "hl", ADCraa(GbCPU, Memory, "a", "h", "l"))

\* AND r / AND n / AND (HL)
StepAND ==
    \/ \E reg \in {"a", "b"} : Retire("ANDr", reg, ANDr(GbCPU, reg))
    \/ Immediate("ANDn", ANDn(GbCPU, Memory))
    \/ Checked("ANDaa", "hl", ANDaa(GbCPU, Memory, "h", "l"))

\* SUB r / SUB n / SUB (HL)
StepSUB ==
    \/ \E reg \in {"a", "b"} : Retire("SUBr", reg, SUBr(GbCPU, reg))
    \/ Immediate("SUBn", SUBn(GbCPU, Memory))
    \/ Retire("SUBaa", "hl", SUBaa(GbCPU, Memory, "h", "l"))

\* SBC A,r / SBC A,n / SBC A,(HL)
StepSBC ==
    \/ \E reg2 \in {"a", "b"} : Retire("SBCrr", reg2, SBCrr(GbCPU, "a", reg2))
    \/ Immediate("SBCAn", SBCAn(GbCPU, Memory))
    \/ Retire("SBCraa", "hl", SBCraa(GbCPU, Memory, "a", "h", "l"))

\* CP r / CP n / CP (HL)
StepCP ==
    \/ \E reg \in {"a", "b"} : Retire("CPr", reg, CPr(GbCPU, reg))
    \/ Immediate("CPn", CPn(GbCPU, Memory))
    \/ Retire("CPaa", "hl", CPaa(GbCPU, Memory, "h", "l"))

\* ADD HL,rr / ADD HL,SP / ADD SP,s / LD HL,SP+s
StepWordAdd ==
    \/ \E pair \in {"bc", "de", "hl"} :
          Retire("ADDHLrr", pair,
                 ADDHLrr(GbCPU, RegPair(pair)[1], RegPair(pair)[2]))
    \/ Retire("ADDHLSP", "sp", ADDHLSP(GbCPU))
    \/ Immediate("ADDSPs", ADDSPs(GbCPU, Memory))
    \/ Immediate("LDHLSPs", LDHLSPs(GbCPU, Memory))

StepINCaa == Checked("INCaa", "hl", INCaa(GbCPU, Memory, "h", "l"))

StepPOPrr ==
    \E pair \in {"af", "bc"} :
       Retire("POPrr", pair,
              POPrr(GbCPU, Memory, RegPair(pair)[1], RegPair(pair)[2]).cpu)

StepORaa == Retire("ORaa", "hl", ORaa(GbCPU, Memory, "h", "l"))

\* LDD (HL),A / LDI (HL),A
StepStream ==
    \E kind \in {"LDDaaR", "LDIaaR"} :
       \E r \in {IF kind = "LDDaaR"
                 THEN LDDaaR(GbCPU, Memory, "h", "l", "a")
                 ELSE LDIaaR(GbCPU, Memory, "h", "l", "a")} :
          /\ phase = "ready"
          /\ GbCPU' = r.cpu
          /\ Memory' = r.mem
          /\ phase' = "done"
          /\ hist' = <<AluRecord(kind, "a")>>
          /\ UNCHANGED <<mode, modeClock, currentLine, histVars, calls,
                         updateCycles, prevCycles, Cart, drawn, fed>>

NextALU ==
    \/ StepADD \/ StepADC \/ StepAND \/ StepSUB \/ StepSBC \/ StepCP
    \/ StepWordAdd \/ StepINCaa \/ StepPOPrr \/ StepORaa \/ StepStream

SpecALU == InitALU /\ [][NextALU]_vars

----------------------------------------------------------------------------
(* Loading a cartridge.  A file is its length and the bytes of its header  *)
(* (offsets 0x0134 to 0x0149); a string is the sequence of its bytes.      *)

TitleBegin == 308

TitleEnd == 323

CGBFlagAt == 323

TypeAt == 327

ROMSizeAt == 328

RAMSizeAt == 329

\* the names found in the title field: "TEST", "AB", the empty name and a
\* name that fills the 15 bytes of the field
CartNames ==
    { <<84, 69, 83, 84>>, <<65, 66>>, <<>>,
      <<72, 65, 76, 75, 69, 78, 32, 84, 69, 83, 84, 32, 82, 79, 77>> }

\* a file of len bytes whose header holds the name, padded with null
\* bytes, and the four other fields
CartFile(len, name, cgb, type, rom, ram) ==
    [len |-> len,
     bytes |-> [o \in TitleBegin .. RAMSizeAt |->
                  CASE o < TitleEnd ->
                         IF o - TitleBegin < Len(name)
                         THEN name[o - TitleBegin + 1] ELSE 0
                    [] o = CGBFlagAt -> cgb
                    [] o = TypeAt -> type
                    [] o = ROMSizeAt -> rom
                    [] o = RAMSizeAt -> ram
                    [] OTHER -> 0]]

\* the files LoadCart is given: 32 KiB images, and one that ends inside
\* the header
CartFiles ==
    { CartFile(32768, n, cgb, t, rom, ram) :
        n \in CartNames, cgb \in {0, 128, 192}, t \in {0, 1, 19},
        rom \in {0, 1, 5}, ram \in {0, 3} }
    \cup { CartFile(328, <<84, 69, 83, 84>>, 0, 0, 0, 0) }

\* string(cart.MBC[begin:end]): the bytes of the slice, as they are
SliceString(file, begin, end) ==
    [i \in 1 .. (end - begin) |-> file.bytes[begin + i - 1]]

\* the slice and index expressions of LoadCart panic when the file is
\* shorter than the header
LoadCartPanics(file) ==
    \/ TitleEnd > file.len
    \/ CGBFlagAt >= file.len
    \/ TypeAt >= file.len
    \/ ROMSizeAt >= file.len
    \/ RAMSizeAt >= file.len

\* the Cartridge LoadCart builds from the bytes of the file
ParseCart(file) ==
    [MBC |-> file,
     Title |-> SliceString(file, TitleBegin, TitleEnd),
     CGBFlag |-> file.bytes[CGBFlagAt],
     Type |-> file.bytes[TypeAt],
     ROMSize |-> file.bytes[ROMSizeAt],
     RAMSize |-> file.bytes[RAMSizeAt]]

InitCart ==
    /\ InitLCD
    /\ Memory = [a \in MemDomain |-> 0]
    /\ GbCPU = [PC |-> 0, pcAlias |-> NoAlias, SP |-> StackTop, IME |-> 0,
                Halted |-> FALSE, EIReceived |-> FALSE, Jumped |-> FALSE,
                IFPreHalt |-> 0, a |-> 0, f |-> 0, b |-> 0, c |-> 0,
                d |-> 0, e |-> 0, h |-> 0, l |-> 0]
    /\ phase = "unloaded"
    /\ calls = 0
    /\ updateCycles = 0
    /\ prevCycles = 0
    /\ hist = <<>>
    /\ Cart = NoCart
    /\ drawn = NoFrame
    /\ fed = NoFeed
    /\ lastOp = "init"
    /\ prevMode = 2
    /\ prevLine = 0
    /\ raised = 0
    /\ run = 0
    /\ vbIncs = -1

\* LoadCart on a path that cannot be read: the error is returned
LoadCartError ==
    /\ phase = "unloaded"
    /\ phase' = "error"
    /\ UNCHANGED <<lcdVars, histVars, GbCPU, calls, updateCycles,
                   prevCycles, hist, Cart, drawn, fed>>

\* LoadCart on a file that was read: the header is parsed and nil is
\* returned, or the runtime panics on a file that is too short
LoadCart ==
    /\ phase = "unloaded"
    /\ \E cartData \in CartFiles :
          IF LoadCartPanics(cartData)
          THEN phase' = "panic" /\ UNCHANGED Cart
          ELSE phase' = "loaded" /\ Cart' = ParseCart(cartData)
    /\ UNCHANGED <<lcdVars, histVars, GbCPU, calls, updateCycles,
                   prevCycles, hist, drawn, fed>>

NextCart == LoadCart \/ LoadCartError

SpecCart == InitCart /\ [][NextCart]_vars

----------------------------------------------------------------------------
(* The length of a frame.  The display is on from the start and UpdateLCD  *)
(* is called with cycle counts from CycleSteps until the VBlank request    *)
(* has been raised twice; fed counts the cycles in between.                *)

\* steps of one frame that may go past the threshold of their mode
MaxDiscards == 2

\* the modeClock value at which a mode is left
Threshold(m) ==
    CASE m = 0 -> HBlankCycles
      [] m = 1 -> VBlankLineCycles
      [] m = 2 -> OAMCycles
      [] OTHER -> VRAMCycles

\* modeClock as setLCDStatus sees it in a step of c cycles
ClockWith(c) == Int16(modeClock + Int16(c))

\* the bookkeeping of one step of c cycles that ORs the request bits req
\* into 0xFF0F: a step that raises the VBlank request closes the frame and
\* opens the next one
FedNext(c, req) ==
    LET counting == fed.cycles >= 0
        on == ClockWith(c) = Threshold(mode)
    IN  IF Bit(req, 0) = 1
        THEN [cycles |-> 0, discards |-> 0, exact |-> TRUE,
              frame |-> IF counting THEN fed.cycles + c ELSE -1,
              frameExact |-> counting /\ fed.exact /\ on]
        ELSE [fed EXCEPT
                !.cycles = IF counting THEN @ + c ELSE @,
                !.discards = IF ClockWith(c) > Threshold(mode)
                             THEN @ + 1 ELSE @,
                !.exact = @ /\ on]

InitFeed ==
    /\ InitLCD
    /\ Memory = [a \in MemDomain |-> IF a = lcdc THEN 128 ELSE 0]
    /\ lastOp = "init"
    /\ prevMode = 2
    /\ prevLine = 0
    /\ raised = 0
    /\ run = 0
    /\ vbIncs = -1
    /\ GbCPU = [PC |-> 0, pcAlias |-> NoAlias, SP |-> StackTop, IME |-> 0,
                Halted |-> FALSE, EIReceived |-> FALSE, Jumped |-> FALSE,
                IFPreHalt |-> 0, a |-> 0, f |-> 0, b |-> 0, c |-> 0,
                d |-> 0, e |-> 0, h |-> 0, l |-> 0]
    /\ phase = "feed"
    /\ calls = 0
    /\ updateCycles = 0
    /\ prevCycles = 0
    /\ hist = <<>>
    /\ Cart = NoCart
    /\ drawn = NoFrame
    /\ fed = NoFeed

\* one UpdateLCD(c) call with the display on, until a frame is measured
Feed(c) ==
    LET w == [mode |-> mode, modeClock |-> modeClock,
              currentLine |-> currentLine, mem |-> Memory]
    IN  \E r \in {UpdateLCDResult(w, c)} :
        /\ fed.frame = -1
        /\ ClockWith(c) > Threshold(mode) => fed.discards < MaxDiscards
        /\ mode' = r.mode
        /\ modeClock' = r.modeClock
        /\ currentLine' = r.currentLine
        /\ Memory' = r.mem
        /\ lastOp' = "on"
        /\ prevMode' = mode
        /\ prevLine' = currentLine
        /\ raised' = Requests(w, c)
        /\ run' = ScenarioNext(TRUE, c)
        /\ vbIncs' = VbIncsNext(TRUE, c, r)
        /\ fed' = FedNext(c, Requests(w, c))
        /\ UNCHANGED <<GbCPU, phase, calls, updateCycles, prevCycles, hist,
                       Cart, drawn>>

NextFeed == \E c \in CycleSteps : Feed(c)

SpecFeed == InitFeed /\ [][NextFeed]_vars

----------------------------------------------------------------------------
(* Frame composition.  DrawFrame populates the background (and the window  *)
(* when LCDC bit 5 is set) from the selected tile map and renders the 40   *)
(* sprites of the OAM.  A populated tile is kept as the tile identifier     *)
(* renderTile was called with and a sprite as its position, identifier and *)
(* attributes: memory does not change while the frame is drawn, so the     *)
(* pixels of either are renderTile of those arguments.                     *)

\* the slice of memory getTileMap returns: 0x9C00:0x9FFF when the LCDC bit
\* is set, 0x9800:0x9C00 otherwise
getTileMap(mem, identifier) ==
    IF Bit(Rd(mem, lcdc), identifier) # 0
    THEN [begin |-> 39936, end |-> 40959]
    ELSE [begin |-> 38912, end |-> 39936]

\* one renderTile call for each byte of the tile map, in order
populateTiles(mem, window) ==
    LET bgmap == getTileMap(mem, IF window THEN 6 ELSE 3)
    IN  [i \in 1 .. (bgmap.end - bgmap.begin) |->
            Rd(mem, bgmap.begin + (i - 1))]

\* the tile positions of the 256 x 256 bitmap that tile i (from 0) of the
\* list is set at: x = (i % 32) * 8, y = (i / 32) * 8
generateBackgroundImage(bgTiles) ==
    {<<((i - 1) % 32) * 8, ((i - 1) \div 32) * 8>> : i \in 1 .. Len(bgTiles)}

\* the pixels of a tile, row by row: the place of each in the tile and its
\* colour (the index into the palette)
renderTile(mem, tileID, attrs, sprites) ==
    LET loTiles == Bit(Rd(mem, lcdc), 4) # 0
        at == IF loTiles \/ sprites THEN 32768 + (tileID * 16)
              ELSE IF tileID > 127 THEN 34816 + ((tileID - 128) * 16)
              ELSE 34816 + ((tileID + 128) * 16)
        px(k) ==
            LET line == (k - 1) \div 8
                pix == (k - 1) % 8
                hi == Rd(mem, at + line * 2)
                lo == Rd(mem, at + line * 2 + 1)
                hiBit == Bit(lo, 7 - pix)
                loBit == Bit(hi, 7 - pix)
            IN  [X |-> IF Bit(attrs, 5) # 0 THEN 8 - pix ELSE pix,
                 Y |-> IF Bit(attrs, 6) # 0 THEN 8 - line ELSE line,
                 line |-> line, pix |-> pix,
                 Color |-> loBit + hiBit * 2]
        shown(p) == ~(sprites /\ p.Color = 0)
    IN  SelectSeq([k \in 1 .. 64 |-> px(k)], shown)

\* the 40 entries of the OAM at 0xFE00, four bytes each
renderSprites(mem) ==
    [n \in 1 .. 40 |->
        LET at == 65024 + 4 * (n - 1)
        IN  [X |-> Byte(Rd(mem, at + 1) + 248),
             Y |-> Byte(Rd(mem, at) + 240),
             tileID |-> Rd(mem, at + 2),
             attrs |-> Rd(mem, at + 3)]]

\* sprite tile bitmaps, row by row (first and second byte of each row): all
\* of colour 3, one pixel in the top left corner, one in the bottom right
\* corner, and a mix of all four colours
TilePatterns ==
    { [line \in 0 .. 7 |-> <<255, 255>>],
      [line \in 0 .. 7 |-> IF line = 0 THEN <<128, 0>> ELSE <<0, 0>>],
      [line \in 0 .. 7 |-> IF line = 7 THEN <<1, 1>> ELSE <<0, 0>>],
      [line \in 0 .. 7 |-> <<170, 204>>] }

\* LCDC with the display on and bits 3 (background map), 4 (tile data),
\* 5 (window on) and 6 (window map) in every combination
FrameLCDC == {128 + 8 * k : k \in 0 .. 15}

\* a memory with tile 1 holding the pattern, sprite 0 showing tile 1 with
\* the attributes at (16, 32), and a few entries of both tile maps filled
FrameImage(ctl, pattern, attrs) ==
    LET rows == {<<32784 + 2 * line, pattern[line][1]>> : line \in 0 .. 7}
                \cup {<<32785 + 2 * line, pattern[line][2]>> : line \in 0 .. 7}
        cells == rows \cup {<<lcdc, ctl>>, <<65024, 48>>, <<65025, 24>>,
                            <<65026, 1>>, <<65027, attrs>>,
                            <<38912, 1>>, <<39935, 2>>, <<39936, 3>>,
                            <<40958, 4>>, <<40959, 5>>}
        at == {c[1] : c \in cells}
    IN  [a \in MemDomain \cup at |->
            IF a \in at THEN (CHOOSE c \in cells : c[1] = a)[2] ELSE 0]

InitFrame ==
    /\ InitLCD
    /\ \E ctl \in FrameLCDC, pattern \in TilePatterns,
          attrs \in {0, 32, 64, 96} :
          Memory = FrameImage(ctl, pattern, attrs)
    /\ GbCPU = [PC |-> 0, pcAlias |-> NoAlias, SP |-> StackTop, IME |-> 0,
                Halted |-> FALSE, EIReceived |-> FALSE, Jumped |-> FALSE,
                IFPreHalt |-> 0, a |-> 0, f |-> 0, b |-> 0, c |-> 0,
                d |-> 0, e |-> 0, h |-> 0, l |-> 0]
    /\ phase = "frame"
    /\ calls = 0
    /\ updateCycles = 0
    /\ prevCycles = 0
    /\ hist = <<>>
    /\ Cart = NoCart
    /\ drawn = NoFrame
    /\ fed = NoFeed
    /\ lastOp = "init"
    /\ prevMode = 2
    /\ prevLine = 0
    /\ raised = 0
    /\ run = 0
    /\ vbIncs = -1

\* DrawFrame: the background is populated and, in placeView, the window
\* when it is enabled and the sprites; the 160 x 144 image they are
\* composed into is not kept
DrawFrame ==
    /\ phase = "frame"
    /\ drawn' = [populatedBG |-> populateTiles(Memory, FALSE),
                 populatedWindow |->
                     IF Bit(Rd(Memory, lcdc), 5) # 0
                     THEN populateTiles(Memory, TRUE) ELSE <<>>,
                 sprites |-> renderSprites(Memory)]
    /\ phase' = "drawn"
    /\ UNCHANGED <<lcdVars, histVars, GbCPU, calls, updateCycles,
                   prevCycles, hist, Cart, fed>>

SpecFrame == InitFrame /\ [][DrawFrame]_vars

----------------------------------------------------------------------------
(* Properties of the video controller.                                     *)

StepOn == lastOp = "on"

Entered(m) == lastOp = "on" /\ prevMode # m /\ mode = m

\* LY = LYC with the coincidence interrupt enabled (STAT bit 6)
CoincidenceIrq == Memory[ly] = Memory[lyc] /\ Bit(Memory[stat], 6) = 1

\* C1: from mode 2, scanline 0, counter 0 with the display on, steps of 80,
\* 172 and 204 cycles go 2 -> 3 -> 0 -> 2 and end in mode 2 at scanline 1
\* with LY = 1; no VBlank request is made, and an LCD-status request is
\* made only for an event whose STAT enable bit is set (HBlank entry: bit 3,
\* OAM entry: bit 5, LY = LYC: bit 6).
C1_Scenario ==
    /\ run = 1 => mode = 3 /\ currentLine = 0 /\ modeClock = 0
    /\ run = 2 => mode = 0 /\ currentLine = 0 /\ modeClock = 0
    /\ run = 3 => /\ mode = 2 /\ currentLine = 1 /\ modeClock = 0
                  /\ Memory[ly] = 1
    /\ run \in 1..3 =>
          /\ Bit(raised, 0) = 0
          /\ Bit(raised, 1) = 1 =>
                \/ run = 2 /\ Bit(Memory[stat], 3) = 1
                \/ run = 3 /\ Bit(Memory[stat], 5) = 1
                \/ CoincidenceIrq

C1_Witness ==
    run = 3 /\ Bit(Memory[stat], 5) = 1 /\ Bit(raised, 1) = 1

\* C2: with the display on, a step requests VBlank (bit 0 of 0xFF0F) iff it
\* enters mode 1, whatever the STAT enable bits are; the bit is then set in
\* 0xFF0F, and with STAT bit 4 set the same step sets bit 1 as well.
C2_VBlankRequest ==
    StepOn =>
        /\ Bit(raised, 0) = 1 <=> Entered(1)
        /\ Entered(1) => Bit(Memory[IFReg], 0) = 1
        /\ Entered(1) /\ Bit(Memory[stat], 4) = 1
              => Bit(raised, 1) = 1 /\ Bit(Memory[IFReg], 1) = 1

C2_Witness ==
    /\ Entered(1) /\ Bit(Memory[stat], 4) = 1
    /\ Memory[IFReg] = 3 /\ raised = 3

\* C3: mode 1 is entered in the HBlank step that takes the scanline from
\* 143 to 144, so scanlines 0..143 each went through modes 2, 3 and 0.
C3_VBlankAt144 ==
    Entered(1) => prevMode = 0 /\ prevLine = 143 /\ currentLine = 144

\* C4: mode 1, entered with the display on and left with it on throughout,
\* lasts 10 scanline increments of 456 cycles and ends in mode 2 with the
\* scanline and LY at 0.
C4_TenVBlankLines ==
    (StepOn /\ prevMode = 1 /\ mode = 2 /\ vbIncs >= 0) =>
        vbIncs = 10 /\ currentLine = 0 /\ Memory[ly] = 0

\* C5: a step taken with LCDC bit 7 clear leaves the mode counter, the
\* scanline and LY at 0 and STAT at 0x80, and requests no interrupt,
\* whatever the mode, scanline, counter and STAT were before.
C5_DisabledStep ==
    lastOp = "off" =>
        /\ modeClock = 0 /\ currentLine = 0 /\ Memory[ly] = 0
        /\ Memory[stat] = 128
        /\ raised = 0

C5_Witness ==
    /\ lastOp = "off" /\ prevMode = 1 /\ prevLine = 150
    /\ currentLine = 0 /\ Memory[IFReg] # 0

\* C6 as stated: entering mode 2 requests the LCD-status interrupt iff STAT
\* bit 5 is set, and entering mode 3 requests it iff the bit tested in the
\* VRAM-read case, STAT bit 3, is set (the LY = LYC request aside).
C6_AsStated ==
    StepOn =>
        /\ Entered(2) =>
              (Bit(raised, 1) = 1
                  <=> (Bit(Memory[stat], 5) = 1 \/ CoincidenceIrq))
        /\ Entered(3) =>
              (Bit(raised, 1) = 1
                  <=> (Bit(Memory[stat], 3) = 1 \/ CoincidenceIrq))

\* C6 amended: entering mode 2 requests the LCD-status interrupt iff STAT
\* bit 5 is set and entering mode 0 (leaving mode 3) iff STAT bit 3 is set;
\* entering mode 3 requests none; the only other request a step makes is
\* the LY = LYC one under STAT bit 6.  A requested bit is set in 0xFF0F.
C6_ModeEntryRequests ==
    StepOn =>
        /\ Entered(2) =>
              (Bit(raised, 1) = 1
                  <=> (Bit(Memory[stat], 5) = 1 \/ CoincidenceIrq))
        /\ Entered(0) =>
              (Bit(raised, 1) = 1
                  <=> (Bit(Memory[stat], 3) = 1 \/ CoincidenceIrq))
        /\ Entered(3) => (Bit(raised, 1) = 1 <=> CoincidenceIrq)
        /\ Bit(raised, 1) = 1 => Bit(Memory[IFReg], 1) = 1

C6_Witness ==
    /\ Entered(0) /\ Bit(Memory[stat], 3) = 1 /\ ~CoincidenceIrq
    /\ Bit(raised, 1) = 1

\* C7: after every step with the display on, mode change or not, STAT bit 2
\* is set iff LY = LYC, and when they are equal with STAT bit 6 set the
\* step sets bit 1 of 0xFF0F.
C7_Coincidence ==
    StepOn =>
        /\ Bit(Memory[stat], 2) = 1 <=> Memory[ly] = Memory[lyc]
        /\ CoincidenceIrq => Bit(raised, 1) = 1 /\ Bit(Memory[IFReg], 1) = 1

C7_Witness ==
    /\ StepOn /\ prevMode = mode /\ modeClock > 0
    /\ Memory[ly] = 143 /\ CoincidenceIrq /\ Bit(Memory[stat], 2) = 1
    /\ Bit(raised, 1) = 1

\* C8: the low two bits of STAT equal the controller's mode in every state
\* reached from InitLCD by UpdateLCD steps.
C8_StatMirrorsMode == lastOp # "init" => Memory[stat] % 4 = mode

\* C9: LY equals the internal scanline, which lies in 0..153, in every
\* state reached from InitLCD by UpdateLCD steps.
C9_LyMirrorsLine ==
    Memory[ly] = currentLine /\ currentLine \in 0..153

C9_Witness ==
    StepOn /\ prevMode = 1 /\ prevLine = 153 /\ mode = 2 /\ Memory[ly] = 0

----------------------------------------------------------------------------
(* Properties of the frame scheduler.                                      *)

Returned == phase = "idle" /\ calls > 0

Stepped == hist # <<>>

LastStep == hist[1]

LastIrq == hist[1].irq

Pre == hist[1].pre

\* the request/enable bit of the interrupt whose handler is at a vector
IrqBit(vector) == IF vector = 64 THEN 0 ELSE IF vector = 72 THEN 1 ELSE 2

\* C11: an iteration invokes a handler only when its interrupt check ran
\* with IME nonzero and the bit of the serviced interrupt set in both
\* 0xFFFE and 0xFF0F; with IME = 0 at the check no handler is invoked and
\* PC, SP and 0xFF0F are as the instruction left them.
C11_HandlerGuard ==
    Stepped =>
        /\ LastIrq.vector # 0 =>
              /\ LastIrq.checked /\ LastIrq.ime # 0
              /\ Bit(LastIrq.ie, IrqBit(LastIrq.vector)) = 1
              /\ Bit(LastIrq.iflags, IrqBit(LastIrq.vector)) = 1
        /\ (LastStep.kind = "halted" /\ LastIrq.ime = 0) =>
              /\ LastIrq.vector = 0
              /\ GbCPU.PC = Pre.cpu.PC /\ GbCPU.SP = Pre.cpu.SP
              /\ Memory = Pre.lcd.mem

C11_Witness ==
    /\ Stepped /\ LastStep.kind = "run" /\ LastIrq.vector = 64
    /\ LastIrq.ime = 1 /\ GbCPU.PC = 64 /\ GbCPU.SP = 65532

\* C12: an iteration that services an interrupt leaves 0xFF0F as its
\* interrupt check read it with the serviced interrupt's own bit cleared
\* and every other bit unchanged.
C12_ClearsOwnBit ==
    (Stepped /\ LastIrq.vector # 0) =>
        Memory[IFReg] = ClearBit(LastIrq.iflags, IrqBit(LastIrq.vector))

\* C13: when the interrupt check runs with IME set and bit 1 set in both
\* 0xFFFE and 0xFF0F, it services VBlank if that is pending and enabled as
\* well and the LCD-status interrupt (vector 0x48) otherwise, and then bit
\* 1 of 0xFF0F is clear.
C13_LcdStatusServiced ==
    (/\ Stepped /\ LastIrq.checked /\ LastIrq.ime # 0
     /\ Bit(LastIrq.ie, 1) = 1 /\ Bit(LastIrq.iflags, 1) = 1) =>
        IF Bit(LastIrq.ie, 0) = 1 /\ Bit(LastIrq.iflags, 0) = 1
        THEN LastIrq.vector = 64
        ELSE LastIrq.vector = 72 /\ Bit(Memory[IFReg], 1) = 0

\* C14: every iteration taken with the display enabled, an idle tick of a
\* halted CPU included, advances the video controller by the cycles it
\* consumed: its counter, mode or scanline differ from before.
C14_EveryStepFeedsLcd ==
    (Stepped /\ Bit(Pre.lcd.mem[lcdc], 7) = 1) =>
        <<mode, modeClock, currentLine>>
            # <<Pre.lcd.mode, Pre.lcd.modeClock, Pre.lcd.currentLine>>

\* C15: an iteration that starts with Halted set fetches no opcode and
\* changes neither registers nor memory nor the video controller unless it
\* services an interrupt; it clears Halted iff 0xFF0F differs from
\* IFPreHalt, so a CPU halted on an unchanging 0xFF0F stays halted.
C15_HaltedStays ==
    (Stepped /\ Pre.cpu.Halted) =>
        /\ LastStep.kind = "halted" /\ LastStep.op = -1
        /\ GbCPU.Halted <=> Pre.lcd.mem[IFReg] = Pre.cpu.IFPreHalt
        /\ LastIrq.vector = 0 =>
              /\ [GbCPU EXCEPT !.Halted = TRUE] = Pre.cpu
              /\ Memory = Pre.lcd.mem

C15_Witness ==
    /\ Stepped /\ Pre.cpu.Halted /\ GbCPU.Halted
    /\ calls = 2 /\ phase = "loop" /\ Memory[IFReg] = 1

----------------------------------------------------------------------------
(* Properties of the CPU's instructions, stated on the iterations that     *)
(* executed them.                                                          *)

\* the 16-bit little-endian word at an address
Word(mem, a) == Rd(mem, a) + 256 * Rd(mem, Uint16(a + 1))

ZeroOps == {40, 200, 202, 204}

NotZeroOps == {32, 192, 194, 196}

CarryOps == {56, 216, 218, 220}

NotCarryOps == {48, 208, 210, 212}

Conditional == ZeroOps \cup NotZeroOps \cup CarryOps \cup NotCarryOps

\* the flag condition of a conditional opcode under flag register f
CondHolds(op, f) ==
    \/ op \in ZeroOps /\ Bit(f, 7) = 1
    \/ op \in NotZeroOps /\ Bit(f, 7) = 0
    \/ op \in CarryOps /\ Bit(f, 4) = 1
    \/ op \in NotCarryOps /\ Bit(f, 4) = 0

\* the iteration before the last one
PrevStep == hist[2]

\* the last two iterations executed two instructions one after the other
\* with no interrupt serviced in between
TwoInstrs ==
    /\ Len(hist) = 2
    /\ hist[1].kind = "run" /\ hist[2].kind = "run"
    /\ hist[2].irq.vector = 0

\* an iteration executed a given opcode
Ran(h, ops) == h.kind = "run" /\ h.op \in ops

\* C16: after RETI, PC holds the word that was on top of the stack, SP is
\* 2 higher than before, and IME is set whatever it was.
C16_RetiEnables ==
    (Stepped /\ Ran(LastStep, {217})) =>
        /\ sliceToInt(GbCPU, Memory) = Word(Pre.lcd.mem, Pre.cpu.SP)
        /\ GbCPU.SP = Uint16(Pre.cpu.SP + 2)
        /\ GbCPU.IME = 1

\* where the instruction an iteration executed hands control: the target
\* of a jump, call, return or reset that is taken, and the address behind
\* the instruction otherwise
NextAddress(h) ==
    LET op == h.op
        at == h.addr
        cpu == h.pre.cpu
        mem == h.pre.lcd.mem
        taken == op \notin Conditional \/ CondHolds(op, cpu.f)
        rel == Rd(mem, Uint16(at + 1))
    IN  CASE op \in {195, 194, 202, 210, 218, 205, 196, 204, 212, 220} ->
               IF taken THEN Word(mem, Uint16(at + 1)) ELSE Uint16(at + 3)
          [] op \in {24, 32, 40, 48, 56} ->
               IF taken
               THEN Uint16(at + 2 + (IF rel > 127 THEN rel + 65280 ELSE rel))
               ELSE Uint16(at + 2)
          [] op \in {201, 217, 192, 200, 208, 216} ->
               IF taken THEN Word(mem, cpu.SP) ELSE Uint16(at + 1)
          [] op = 207 -> 8
          [] op = 255 -> 56
          [] op = 233 -> cpu.l + 256 * cpu.h
          [] OTHER -> Uint16(at + 1)

\* C17: the opcode after an instruction is fetched from the target of that
\* instruction when it redirects control flow (JPaa, JPHL, JRn, a taken
\* conditional, CALLaa, RET, RETI, RST) and from the address behind it, its
\* length further, otherwise.
C17_NextFetch ==
    TwoInstrs => LastStep.addr = NextAddress(PrevStep)

C17_NextFetchButRST ==
    (TwoInstrs /\ PrevStep.op \notin {207, 255})
        => LastStep.addr = NextAddress(PrevStep)

\* the extra cycles of a conditional instruction whose condition holds
CondExtra(op) == IF op \in {194, 202, 210, 218, 32, 40, 48, 56} THEN 4 ELSE 12

\* C18: a conditional jump, call or return returns its fixed nonzero extra
\* cycle count and sets Jumped exactly when its flag condition holds; when
\* the condition does not hold it returns 0 and leaves PC, SP and memory as
\* they were.
C18_Conditionals ==
    (Stepped /\ Ran(LastStep, Conditional)) =>
        LET op == LastStep.op
            c0 == [Pre.cpu EXCEPT !.Jumped = FALSE]
            m0 == Pre.lcd.mem
            e == Executor(op, c0, m0)
            holds == CondHolds(op, Pre.cpu.f)
        IN  /\ LastStep.delay = e.delay
            /\ GbCPU.Jumped = e.cpu.Jumped
            /\ CondExtra(op) # 0
            /\ holds => e.delay = CondExtra(op) /\ e.cpu.Jumped
            /\ ~holds =>
                  /\ e.delay = 0
                  /\ ~e.cpu.Jumped
                  /\ sliceToInt(e.cpu, e.mem) = sliceToInt(c0, m0)
                  /\ e.cpu.SP = c0.SP
                  /\ e.mem = m0
                  /\ GbCPU.SP = Pre.cpu.SP

\* a RETNC whose condition held has returned, and 12 extra cycles with it
C18_Witness ==
    /\ Stepped
    /\ Ran(LastStep, {208})
    /\ CondHolds(208, Pre.cpu.f)
    /\ LastStep.delay = 12
    /\ GbCPU.Jumped
    /\ GbCPU.SP = Uint16(Pre.cpu.SP + 2)

PushOps == {197, 213, 229, 245}

PopOps == {193, 209, 225, 241}

\* the register pair a PUSH or POP opcode names, high register first
PairOf(op) ==
    CASE op \in {193, 197} -> <<"b", "c">>
      [] op \in {209, 213} -> <<"d", "e">>
      [] op \in {225, 229} -> <<"h", "l">>
      [] OTHER -> <<"a", "f">>

\* the 16-bit value of a register pair of a CPU
PairValue(cpu, pair) == cpu[pair[2]] + 256 * cpu[pair[1]]

\* a PUSH and then a POP were executed
PushThenPop ==
    TwoInstrs /\ PrevStep.op \in PushOps /\ LastStep.op \in PopOps

\* C19 as stated: PUSHrr of a pair X and then POPrr into a pair Y leaves
\* the two bytes of Y identical to the two bytes X held, AF included, and
\* the stack pointer where it was before the push.
C19_RoundTripAnyPair ==
    PushThenPop =>
        LET x == PairOf(PrevStep.op)
            y == PairOf(LastStep.op)
            before == PrevStep.pre.cpu
        IN  /\ GbCPU[y[1]] = before[x[1]]
            /\ GbCPU[y[2]] = before[x[2]]
            /\ GbCPU.SP = before.SP

\* C19: PUSHrr of a pair X and then POPrr into a pair Y leaves the high
\* byte of Y equal to the high byte X held and the low byte of Y equal to
\* the low byte X held, except that a pop into AF keeps only the upper four
\* bits of the low byte; the stack pointer is where it was before the push.
C19_RoundTrip ==
    PushThenPop =>
        LET x == PairOf(PrevStep.op)
            y == PairOf(LastStep.op)
            before == PrevStep.pre.cpu
            low == before[x[2]]
        IN  /\ GbCPU[y[1]] = before[x[1]]
            /\ GbCPU[y[2]] = IF y[2] = "f" THEN low - (low % 16) ELSE low
            /\ GbCPU.SP = before.SP

\* BC holding 0x0013 was pushed and popped into AF: F holds 0x10
C19_Witness ==
    /\ PushThenPop
    /\ PrevStep.op = 197 /\ LastStep.op = 241
    /\ PrevStep.pre.cpu.c = 19
    /\ GbCPU.a = 0 /\ GbCPU.f = 16
    /\ GbCPU.SP = PrevStep.pre.cpu.SP

\* a CALLaa and then a RET were executed
CallThenRet == TwoInstrs /\ PrevStep.op = 205 /\ LastStep.op = 201

\* a PUSH and then a RET were executed
PushThenRet == TwoInstrs /\ PrevStep.op \in PushOps /\ LastStep.op = 201

\* a CALLaa and then a POP were executed
CallThenPop == TwoInstrs /\ PrevStep.op = 205 /\ LastStep.op \in PopOps

\* CALLaa then RET resumes behind the CALL with SP restored, and PUSHrr
\* then RET sets PC to the value of the pushed pair
CallPushRet ==
    /\ CallThenRet =>
          /\ sliceToInt(GbCPU, Memory) = Uint16(PrevStep.addr + 3)
          /\ GbCPU.SP = PrevStep.pre.cpu.SP
    /\ PushThenRet =>
          sliceToInt(GbCPU, Memory)
              = PairValue(PrevStep.pre.cpu, PairOf(PrevStep.op))

\* C20 as stated: CALLaa then RET resumes at the CALL's address + 3 with SP
\* restored, PUSHrr of a pair then RET sets PC to that pair's value, and
\* CALLaa then POPrr leaves the CALL's address + 3 in the popped pair,
\* whichever pair it is.
C20_SameOrderAnyPair ==
    /\ CallPushRet
    /\ CallThenPop =>
          PairValue(GbCPU, PairOf(LastStep.op)) = Uint16(PrevStep.addr + 3)

\* C20: CALLaa then RET resumes at the CALL's address + 3 with SP restored,
\* PUSHrr of a pair then RET sets PC to that pair's value, and CALLaa then
\* POPrr leaves the CALL's address + 3 in the popped pair, except that a
\* pop into AF keeps only the upper four bits of the low byte.
C20_SameOrder ==
    /\ CallPushRet
    /\ CallThenPop =>
          LET ret == Uint16(PrevStep.addr + 3)
              y == PairOf(LastStep.op)
          IN  PairValue(GbCPU, y)
                  = IF y[2] = "f" THEN ret - (ret % 16) ELSE ret

\* a CALLaa at 0x0000 was followed by a RET that resumed at 0x0003 with SP
\* back at its value before the call
C20_Witness ==
    /\ CallThenRet
    /\ PrevStep.addr = 0
    /\ LastStep.addr = 16
    /\ sliceToInt(GbCPU, Memory) = 3
    /\ GbCPU.SP = PrevStep.pre.cpu.SP

\* a VBlank interrupt is enabled and requested and IME is set
VBlankPending ==
    /\ GbCPU.IME # 0
    /\ Bit(Memory[IEReg], 0) = 1
    /\ Bit(Memory[IFReg], 0) = 1

\* C27: the pending-interrupt check runs in every step that executed an
\* instruction, also one that jumped: no such step ends with a VBlank
\* interrupt enabled and requested and IME set, because the step itself
\* services it.
C27_CheckedEveryStep ==
    (Stepped /\ LastStep.kind = "run") => ~VBlankPending

C27_CheckedUnlessJumped ==
    (Stepped /\ LastStep.kind = "run" /\ ~GbCPU.Jumped) => ~VBlankPending

----------------------------------------------------------------------------
(* Properties of the arithmetic and logic instructions, stated on the one  *)
(* instruction executed from an input state.                               *)

\* an executor of the given set has run and returned
Executed(kinds) == phase = "done" /\ hist # <<>> /\ hist[1].kind \in kinds

\* the operand byte the executed instruction was given: the byte behind
\* the opcode, the byte at the address in HL, or a register
OperandOf(h) ==
    LET cpu == h.pre.cpu
        mem == h.pre.lcd.mem
    IN  CASE h.reg = "n" -> Rd(mem, Uint16(cpu.PC + 1))
          [] h.reg = "hl" -> Rd(mem, cpu.l + 256 * cpu.h)
          [] OTHER -> cpu[h.reg]

ZeroFlag == Bit(GbCPU.f, 7) = 1

SubtractFlag == Bit(GbCPU.f, 6) = 1

HalfCarryFlag == Bit(GbCPU.f, 5) = 1

CarryFlag == Bit(GbCPU.f, 4) = 1

\* C21: after ADDrr, ADDAn or ADDraa on operand bytes a and b (b may be
\* the accumulator itself), Carry is set iff a + b > 255, HalfCarry iff
\* (a mod 16) + (b mod 16) > 15, Zero iff (a + b) mod 256 = 0, and Subtract
\* is clear.
C21_AddFlags ==
    Executed({"ADDrr", "ADDAn", "ADDraa"}) =>
        LET a == Pre.cpu.a
            b == OperandOf(LastStep)
        IN  /\ CarryFlag <=> a + b > 255
            /\ HalfCarryFlag <=> (a % 16) + (b % 16) > 15
            /\ ZeroFlag <=> (a + b) % 256 = 0
            /\ ~SubtractFlag

\* ADD A,A with A = 0x80: the sum is 0 with Carry and Zero set
C21_Witness ==
    /\ Executed({"ADDrr"})
    /\ LastStep.reg = "a"
    /\ Pre.cpu.a = 128
    /\ GbCPU.a = 0
    /\ CarryFlag /\ ZeroFlag /\ ~HalfCarryFlag /\ ~SubtractFlag

\* the bitwise AND of two bytes, bit by bit
BitwiseAnd(x, y) ==
    LET b(n) == Bit(x, n) * Bit(y, n) * 2 ^ n
    IN  b(0) + b(1) + b(2) + b(3) + b(4) + b(5) + b(6) + b(7)

\* C22: after ANDn or ANDr, whatever the accumulator, the operand and the
\* flags were, Subtract is clear, HalfCarry is set, Carry is clear, and
\* Zero is set iff the result byte, the AND of the two bytes, is 0.
C22_AndFlags ==
    Executed({"ANDn", "ANDr"}) =>
        /\ GbCPU.a = BitwiseAnd(Pre.cpu.a, OperandOf(LastStep))
        /\ ~SubtractFlag
        /\ HalfCarryFlag
        /\ ~CarryFlag
        /\ ZeroFlag <=> GbCPU.a = 0

\* AND of 0xF0 with 0x0F with all four flags set before: the result is 0,
\* Zero and HalfCarry are set, Subtract and Carry are clear
C22_Witness ==
    /\ Executed({"ANDn"})
    /\ Pre.cpu.a = 240 /\ OperandOf(LastStep) = 15
    /\ Pre.cpu.f = 240
    /\ GbCPU.a = 0
    /\ GbCPU.f = 160

\* C23: the low nibble of F, zero before the instruction, is zero after
\* it, whichever instruction it is, POPrr into AF with any stack bytes
\* included.
C23_LowNibbleZero == GbCPU.f % 16 = 0

\* POP AF took 0xFF from the stack: F holds 0xF0
C23_Witness ==
    /\ Executed({"POPrr"})
    /\ LastStep.reg = "af"
    /\ Rd(Pre.lcd.mem, Pre.cpu.SP) = 255
    /\ GbCPU.f = 240

\* a byte read as a signed 8-bit value
Signed8(e) == IF e > 127 THEN e - 256 ELSE e

\* C24: ADDSPs sets SP, and LDHLSPs sets HL, to (SP + s) mod 65536 with s
\* the operand byte read as a signed 8-bit value; both clear Zero and
\* Subtract, and LDHLSPs leaves SP as it was.
C24_StackRelative ==
    Executed({"ADDSPs", "LDHLSPs"}) =>
        LET sp == Pre.cpu.SP
            sum == (sp + Signed8(OperandOf(LastStep)) + 65536) % 65536
        IN  /\ ~ZeroFlag
            /\ ~SubtractFlag
            /\ LastStep.kind = "ADDSPs" => GbCPU.SP = sum
            /\ LastStep.kind = "LDHLSPs" =>
                  /\ GbCPU.l + 256 * GbCPU.h = sum
                  /\ GbCPU.SP = sp

\* LD HL,SP-1 with SP = 0 and Zero and Subtract set before: HL is 0xFFFF,
\* SP is still 0, Zero and Subtract are clear
C24_Witness ==
    /\ Executed({"LDHLSPs"})
    /\ Pre.cpu.SP = 0 /\ OperandOf(LastStep) = 255
    /\ Pre.cpu.f = 240
    /\ GbCPU.h = 255 /\ GbCPU.l = 255
    /\ GbCPU.SP = 0
    /\ ~ZeroFlag /\ ~SubtractFlag

\* C25: no implemented instruction aborts, whatever the registers, flags,
\* memory and PC are, the memory-operand instructions ANDaa and INCaa and
\* operand fetches that wrap around the top of the address space included.
C25_NoAbort == phase # "panic"

C25_NoAbortButMemoryForms ==
    (phase = "panic" /\ LastStep.kind \notin {"ANDaa", "INCaa"})
        => Pre.cpu.PC = 65534

----------------------------------------------------------------------------
(* Properties of the cartridge loader.                                     *)

\* a string without the null bytes at its end
RECURSIVE TrimNulls(_)
TrimNulls(str) ==
    IF str # <<>> /\ str[Len(str)] = 0
    THEN TrimNulls(SubSeq(str, 1, Len(str) - 1))
    ELSE str

\* the title field of the loaded file
TitleField == [i \in 1 .. 15 |-> Cart.MBC.bytes[TitleBegin + i - 1]]

\* C26: loading an image whose title field holds a name followed by null
\* bytes returns no error and leaves the name, without the trailing nulls,
\* as the title; the other header fields are the bytes at 0x0143, 0x0147,
\* 0x0148 and 0x0149.
C26_TitleTrimmed ==
    phase = "loaded" =>
        /\ Cart.Title = TrimNulls(TitleField)
        /\ Cart.CGBFlag = Cart.MBC.bytes[323]
        /\ Cart.Type = Cart.MBC.bytes[327]
        /\ Cart.ROMSize = Cart.MBC.bytes[328]
        /\ Cart.RAMSize = Cart.MBC.bytes[329]

C26_TitleIsField ==
    phase = "loaded" =>
        /\ Cart.Title = TitleField
        /\ Cart.CGBFlag = Cart.MBC.bytes[323]
        /\ Cart.Type = Cart.MBC.bytes[327]
        /\ Cart.ROMSize = Cart.MBC.bytes[328]
        /\ Cart.RAMSize = Cart.MBC.bytes[329]

----------------------------------------------------------------------------
(* Properties of the carry-in, subtraction and 16-bit instructions.        *)

\* the Carry flag before the executed instruction
CarryIn == Bit(Pre.cpu.f, 4)

\* the Carry flag the carry-in forms are to leave
CarryOutRight ==
    LET a == Pre.cpu.a
        b == OperandOf(LastStep)
    IN  /\ Executed({"ADCrr", "ADCAn", "ADCraa"})
            => (CarryFlag <=> a + b + CarryIn > 255)
        /\ Executed({"SBCrr", "SBCAn", "SBCraa"})
            => (CarryFlag <=> b + CarryIn > a)

\* C28: after an ADC form Carry is set iff a + b + c > 255, after an SBC
\* form iff b + c > a, with a the accumulator, b the operand and c the
\* Carry flag before, b = 0xFF with c = 1 included.
C28_CarryIn == CarryOutRight

C28_CarryInBelowFF ==
    Executed({"ADCrr", "ADCAn", "ADCraa", "SBCrr", "SBCAn", "SBCraa"}) =>
        \/ OperandOf(LastStep) = 255 /\ CarryIn = 1
        \/ CarryOutRight

C28_CarryInIntegerForms ==
    Executed({"ADCrr", "ADCAn", "SBCAn"}) => CarryOutRight

\* what a subtraction or compare of the given executors is to leave
SubtractRight(kinds) ==
    Executed(kinds) =>
        LET a == Pre.cpu.a
            b == OperandOf(LastStep)
            compare == LastStep.kind \in {"CPr", "CPn", "CPaa"}
        IN  /\ GbCPU.a = IF compare THEN a ELSE (a - b + 256) % 256
            /\ LastStep.reg \in {"b"} => GbCPU.b = b
            /\ CarryFlag <=> b > a
            /\ SubtractFlag

\* C29: SUBr, SUBn and SUBaa write (a - b) mod 256 to A and leave the
\* operand register as it was, with Carry set iff b > a and Subtract set;
\* CPr, CPn and CPaa set the same flags and leave A as it was.
C29_Subtract == SubtractRight({"SUBr", "SUBn", "SUBaa", "CPr", "CPn", "CPaa"})

C29_SubtractButSUBr == SubtractRight({"SUBn", "SUBaa", "CPr", "CPn", "CPaa"})

\* the word the executed 16-bit addition adds to HL
WordOperandOf(h) ==
    LET cpu == h.pre.cpu
    IN  CASE h.reg = "sp" -> cpu.SP
          [] h.reg = "bc" -> cpu.c + 256 * cpu.b
          [] h.reg = "de" -> cpu.e + 256 * cpu.d
          [] OTHER -> cpu.l + 256 * cpu.h

\* what a 16-bit addition into HL of the given executors is to leave in the
\* flags
WordAddRight(kinds) ==
    Executed(kinds) =>
        LET x == Pre.cpu.l + 256 * Pre.cpu.h
            y == WordOperandOf(LastStep)
        IN  /\ HalfCarryFlag <=> (x % 4096) + (y % 4096) > 4095
            /\ CarryFlag <=> x + y > 65535
            /\ ~SubtractFlag
            /\ ZeroFlag <=> Bit(Pre.cpu.f, 7) = 1

\* C30: after ADDHLrr or ADDHLSP, HalfCarry is set iff the low 12 bits of
\* the two operands add up to more than 0x0FFF, Carry iff the operands add
\* up to more than 0xFFFF, Subtract is clear and Zero is as it was.
C30_WordAddFlags == WordAddRight({"ADDHLrr", "ADDHLSP"})

C30_WordAddFlagsADDHLSP == WordAddRight({"ADDHLSP"})

C30_WordAddButHalfCarry ==
    Executed({"ADDHLrr"}) =>
        LET x == Pre.cpu.l + 256 * Pre.cpu.h
            y == WordOperandOf(LastStep)
        IN  /\ GbCPU.l + 256 * GbCPU.h = (x + y) % 65536
            /\ HalfCarryFlag <=> (x % 16) + (y % 16) > 15
            /\ CarryFlag <=> x + y > 65535
            /\ ~SubtractFlag
            /\ ZeroFlag <=> Bit(Pre.cpu.f, 7) = 1

\* C31: after ANDaa or ORaa, whatever the flags were, Subtract and Carry are
\* clear, HalfCarry is set after ANDaa and clear after ORaa, and Zero is set
\* iff the result byte is 0.
C31_MemoryLogicFlags ==
    Executed({"ANDaa", "ORaa"}) =>
        /\ ~SubtractFlag
        /\ ~CarryFlag
        /\ HalfCarryFlag <=> LastStep.kind = "ANDaa"
        /\ ZeroFlag <=> GbCPU.a = 0

\* what ORaa does: the accumulator and Zero are right, the other three flags
\* are as they were
C31_ORaaZeroOnly ==
    Executed({"ORaa"}) =>
        LET a == Pre.cpu.a
            v == OperandOf(LastStep)
        IN  /\ GbCPU.a = a + v - BitwiseAnd(a, v)
            /\ ZeroFlag <=> GbCPU.a = 0
            /\ GbCPU.f % 128 = Pre.cpu.f % 128

\* ANDaa never returns
C31_ANDaaNeverReturns == ~Executed({"ANDaa"})

\* what a streaming store of the given executors is to leave, the pointer
\* pair moving by step
StreamRight(kinds, step) ==
    Executed(kinds) =>
        LET hl == Pre.cpu.l + 256 * Pre.cpu.h
        IN  /\ Rd(Memory, hl) = Pre.cpu.a
            /\ GbCPU.a = Pre.cpu.a
            /\ GbCPU.l + 256 * GbCPU.h = (hl + step) % 65536

\* C32: LDDaaR writes the register's byte to the address in the pointer pair
\* and then decrements the pair by one, LDIaaR does the same and increments
\* it by one; the stored register is unchanged in both.
C32_StreamingStores ==
    StreamRight({"LDDaaR"}, 65535) /\ StreamRight({"LDIaaR"}, 1)

C32_StreamingStoreLDIaaR == StreamRight({"LDIaaR"}, 1)

\* what LDDaaR does: the byte is stored, the pointer pair stays and the
\* stored register goes down by one
C32_LDDaaRDecrementsRegister ==
    Executed({"LDDaaR"}) =>
        LET hl == Pre.cpu.l + 256 * Pre.cpu.h
        IN  /\ Rd(Memory, hl) = Pre.cpu.a
            /\ GbCPU.a = (Pre.cpu.a + 255) % 256
            /\ GbCPU.l + 256 * GbCPU.h = hl

----------------------------------------------------------------------------
(* Properties of the restart instruction, read off the iterations of       *)
(* SpecStep that ran it.                                                   *)

\* what the RST executor of the last iteration left, and its argument
RstResult == Executor(LastStep.op, Pre.cpu, Pre.lcd.mem)

RstVector == IF LastStep.op = 207 THEN 8 ELSE 56

RanRST == Stepped /\ Ran(LastStep, {207, 255})

\* C33: RST imm moves the stack pointer down by two, stores PC + 3 in
\* memory at the new stack pointer (low byte first, where RET reads it), and
\* sets PC to the address with high byte 0x00 and low byte imm.
C33_RstPushes ==
    RanRST =>
        /\ RstResult.cpu.SP = (Pre.cpu.SP + 65534) % 65536
        /\ Word(RstResult.mem, RstResult.cpu.SP) = (LastStep.addr + 3) % 65536
        /\ RstResult.cpu.PC = RstVector

\* what RST does: PC is the vector, the stack pointer register holds PC + 3
\* and memory is as it was
C33_RstOverwritesSP ==
    RanRST =>
        /\ RstResult.cpu.PC = RstVector
        /\ RstResult.cpu.SP = (LastStep.addr + 3) % 65536
        /\ RstResult.mem = Pre.lcd.mem

----------------------------------------------------------------------------
(* Properties of frame composition, read off the state DrawFrame leaves.   *)

\* the 1024 tile positions of the 256 x 256 background bitmap
TilePositions == {<<8 * x, 8 * y>> : x \in 0 .. 31, y \in 0 .. 31}

\* the tile map the select bit chooses
SelectedMap(bit) == IF Bit(Rd(Memory, lcdc), bit) # 0 THEN 39936 ELSE 38912

\* a populated layer holds the 1024 tile indices of the map its select bit
\* chooses and fills every tile position
LayerFull(tiles, bit) ==
    /\ Len(tiles) = 1024
    /\ \A i \in 1 .. Len(tiles) :
          tiles[i] = Rd(Memory, SelectedMap(bit) + (i - 1))
    /\ generateBackgroundImage(tiles) = TilePositions

WindowDrawn == phase = "drawn" /\ Bit(Rd(Memory, lcdc), 5) # 0

\* C34: for either value of the tile-map select bit (LCDC bit 3 for the
\* background, bit 6 for the window) the selected map, at 0x9800 or at
\* 0x9C00, supplies 32 x 32 = 1024 tile indices and the assembled bitmap has
\* every one of its 1024 tile positions filled.
C34_TileMapFull ==
    /\ phase = "drawn" => LayerFull(drawn.populatedBG, 3)
    /\ WindowDrawn => LayerFull(drawn.populatedWindow, 6)

\* with the select bit clear the claim holds
C34_TileMapFullAt9800 ==
    /\ (phase = "drawn" /\ Bit(Rd(Memory, lcdc), 3) = 0)
          => LayerFull(drawn.populatedBG, 3)
    /\ (WindowDrawn /\ Bit(Rd(Memory, lcdc), 6) = 0)
          => LayerFull(drawn.populatedWindow, 6)

\* with the select bit set the layer has 1023 tiles: the byte at 0x9FFF is
\* not read and the last tile position stays empty
C34_TileMapShortAt9C00 ==
    (phase = "drawn" /\ Bit(Rd(Memory, lcdc), 3) # 0) =>
        /\ Len(drawn.populatedBG) = 1023
        /\ drawn.populatedBG[1] = 3 /\ drawn.populatedBG[1023] = 4
        /\ TilePositions \ generateBackgroundImage(drawn.populatedBG)
              = {<<248, 248>>}

\* the pixels of sprite n of the last frame
SpritePixels(n) ==
    LET s == drawn.sprites[n]
        tile == renderTile(Memory, s.tileID, s.attrs, TRUE)
    IN  {tile[k] : k \in 1 .. Len(tile)}

\* a sprite with pixels was drawn with the given flip bits among its
\* attributes
SpriteDrawn(n) == phase = "drawn" /\ SpritePixels(n) # {}

XFlip(n) == Bit(drawn.sprites[n].attrs, 5) # 0

YFlip(n) == Bit(drawn.sprites[n].attrs, 6) # 0

\* what a sprite's pixels are to be when a flip maps coordinate p to
\* top - p
SpriteRight(n, top) ==
    \A p \in SpritePixels(n) :
        /\ p.X \in 0 .. 7 /\ p.Y \in 0 .. 7
        /\ p.X = IF XFlip(n) THEN top - p.pix ELSE p.pix
        /\ p.Y = IF YFlip(n) THEN top - p.line ELSE p.line
        /\ p.Color # 0

\* C35: for every sprite tile and every combination of the Y-flip bit
\* (attribute bit 6) and the X-flip bit (bit 5), each decoded pixel's
\* coordinates are within 0..7 on both axes, a flip on an axis maps
\* coordinate p to 7 - p, and no pixel of colour index 0 is emitted.
C35_SpritePixels ==
    phase = "drawn" => \A n \in 1 .. 40 : SpriteRight(n, 7)

\* without a flip the claim holds
C35_SpritePixelsUnflipped ==
    phase = "drawn" =>
        \A n \in 1 .. 40 : (~XFlip(n) /\ ~YFlip(n)) => SpriteRight(n, 7)

\* what the flips do: coordinate p goes to 8 - p, which is 8 for p = 0, and
\* colour 0 is skipped
C35_FlipMapsTo8MinusP ==
    phase = "drawn" =>
        \A n \in 1 .. 40 : \A p \in SpritePixels(n) :
            /\ p.X = IF XFlip(n) THEN 8 - p.pix ELSE p.pix
            /\ p.Y = IF YFlip(n) THEN 8 - p.line ELSE p.line
            /\ p.Color # 0
            /\ p.Color = Bit(Rd(Memory, 32784 + 2 * p.line), 7 - p.pix)
                  + 2 * Bit(Rd(Memory, 32785 + 2 * p.line), 7 - p.pix)

----------------------------------------------------------------------------
(* Agreement of mode and scanline, and the length of a frame.              *)

\* C36: in every state reachable from InitLCD by enabled and disabled
\* UpdateLCD steps in any order, mode 1 goes with a scanline in 143..153 and
\* modes 0, 2 and 3 go with a scanline in 0..142.
C36_ModeLineAgree ==
    /\ mode = 1 => currentLine \in 143 .. 153
    /\ mode \in {0, 2, 3} => currentLine \in 0 .. 142

\* the two agree outside mode 1, and in mode 1 as long as the display has
\* been on since mode 1 was entered
C36_AgreeWhileOn ==
    /\ (mode = 1 /\ vbIncs >= 0) => currentLine \in 143 .. 153
    /\ mode \in {0, 2, 3} => currentLine \in 0 .. 142

\* a disabled step in mode 1 leaves mode 1 with scanline 0
C36_DisabledKeepsMode ==
    lastOp = "off" => mode = prevMode /\ currentLine = 0

\* a frame has been measured: the VBlank request was raised twice with the
\* display on throughout
FrameMeasured == fed.frame # -1

\* C37: with the display on throughout, at least 154 x 456 = 70,224 cycles
\* are given to UpdateLCD between two consecutive settings of the VBlank
\* request bit, whatever the sizes of the steps, and exactly 70,224 when
\* every step ends exactly on a threshold.
C37_FrameLength ==
    FrameMeasured =>
        /\ fed.frame >= 154 * VBlankLineCycles
        /\ fed.frameExact => fed.frame = 154 * VBlankLineCycles

\* a frame in which steps went past a threshold took more than 70,224
\* cycles
C37_Witness ==
    /\ FrameMeasured
    /\ ~fed.frameExact
    /\ fed.frame > 154 * VBlankLineCycles

\* a frame whose every step ended on a threshold took 70,224 cycles
C37_WitnessExact ==
    /\ FrameMeasured
    /\ fed.frameExact
    /\ fed.frame = 154 * VBlankLineCycles

============================================================================
